---------------------------- MODULE Spec2Model ----------------------------
(***************************************************************************)
(* A model of the Ionify core: the dependency graph (Graph), the           *)
(* transform engine and its process-wide cache (TransformEngine,           *)
(* TransformCache), the HMR coordinator (HMRServer), the version hash      *)
(* (computeGraphVersion), the worker pool (TransformWorkerPool), the dev   *)
(* server's handlers, the file watcher (IonifyWatcher), the public paths   *)
(* (publicPathForFile, decodePublicPath) and the resolver (resolveImport). *)
(*                                                                         *)
(* Each component has its own specification (SpecGraph, ...): its Init     *)
(* is the component after construction, its Next the component's           *)
(* operations; the variables of the other components stay at their         *)
(* initial values.                                                         *)
(*                                                                         *)
(* The native binding (part_014:102, nativeBinding) is null in this        *)
(* model: the resolveCandidates() loop found no ionify_core binary, so     *)
(* every `if (this.native)` branch is skipped and the JavaScript paths     *)
(* decide.                                                                 *)
(***************************************************************************)
EXTENDS Naturals, Integers, Sequences, FiniteSets, TLC

VARIABLES
    nodes,        \* Graph.nodes: the Map, as the sequence of its entries in insertion order
    dirty,        \* Graph.dirty
    saveTimer,    \* Graph.saveTimer: TRUE while the 300ms timer is armed
    gRet,         \* the last Graph call and what it returned
    graphFile,    \* .ionify/graph.json: the snapshot save() wrote, if any
    envConfigHash, \* process.env.IONIFY_CONFIG_HASH of the running process
    tcStore,      \* transformCache.store: the Map's entries in insertion order
    cas,          \* the files <casRoot>/<version>/<moduleHash>/transformed.js
    now,          \* Date.now()
    teCall,       \* each caller of TransformEngine.run: where it is and what it got
    clients,      \* HMRServer.clients
    pending,      \* HMRServer.pending
    nextId,       \* HMRServer.nextId
    hmrClosed,    \* HMRServer.closed
    sink,         \* each SSE response: its state and what was written to it
    hmrRet,       \* the last consumeUpdate call and what it returned
    issued,       \* history: the ids queueUpdate has returned
    served,       \* history: the ids for which consumeUpdate has returned the entry
    verIn,        \* the two configurations handed to computeGraphVersion
    verOut,       \* what computeGraphVersion returned for each
    poolOpts,     \* TransformWorkerPool.size and maxQueueBytes
    threads,      \* the Worker threads by threadId: running, failed, exited
    poolWorkers,  \* TransformWorkerPool.workers
    poolQueue,    \* TransformWorkerPool.queue
    poolActive,   \* TransformWorkerPool.active
    poolCallbacks, \* TransformWorkerPool.callbacks: the job ids with a callback
    poolWaiters,  \* TransformWorkerPool.waiters: the suspended callers
    pendingBytes, \* TransformWorkerPool.pendingBytes
    poolClosed,   \* TransformWorkerPool.closed
    poolCall,     \* each caller of run(): where it is and how it ended
    closePc,      \* where the call of close() is
    poolHist,     \* history: requeues, failures, spawns, suspensions, admissions
    manyCall,     \* the call of runMany(): where it is, its jobs, its resultMap, what it returned
    disk,         \* the project files on disk: the content of each, "none" when absent
    watched,      \* IonifyWatcher.watchers: the files being watched
    fsEvents,     \* the watcher callbacks not yet run: <<file, "watch">> is fs.watch, <<file, "poll">> is fs.watchFile
    debounce,     \* IonifyWatcher.debounce: the files with the time of an fs.watch event let through
    resolveCache, \* resolvePathCache (resolver.ts:169): <<importer, specifier>> to the path, or "null"
    cssCall,      \* each request for a CSS file: where it is and its response
    applyCall,    \* the request to the apply endpoint: where it is and its response
    walk,         \* the call of collectAffected(): its loops' queue and result sets
    watcher,      \* an IonifyWatcher and one path: its maps, the observers node holds, what it emitted
    mapper,       \* the last call of decodePublicPath, alone or on publicPathForFile's result
    resolver,     \* resolver.ts: resolvePathCache, customAliasEntries, the files there are, the answers given
    shut,         \* dev.ts: the server, its connections, closingPromise, cleanedUp, the timers, what was closed
    optLevel,     \* the last call of resolveOptimizationLevel: its arguments and its result
    casIo,        \* one CAS artifact file: its bytes on disk, the writer's progress, what a reader saw
    lru           \* a TransformCache of its own: store, maxEntries, Date.now(), the last call

graphVars == <<nodes, dirty, saveTimer, gRet, graphFile, envConfigHash>>
teVars == <<tcStore, cas, teCall>>
hmrVars == <<clients, pending, nextId, hmrClosed, sink, hmrRet, issued, served>>
verVars == <<verIn, verOut>>
poolVars == <<poolOpts, threads, poolWorkers, poolQueue, poolActive, poolCallbacks,
              poolWaiters, pendingBytes, poolClosed, poolCall, closePc, poolHist>>
devVars == <<disk, watched, fsEvents, debounce, resolveCache, cssCall, applyCall>>
lastVars == <<shut, optLevel, casIo, lru>>
moreVars == <<walk, watcher, mapper, resolver, lastVars>>
coreVars == <<graphVars, teVars, hmrVars, verVars, poolVars, devVars, now, manyCall>>
notWalk == <<coreVars, watcher, mapper, resolver, lastVars>>
notWatcher == <<coreVars, walk, mapper, resolver, lastVars>>
notMapper == <<coreVars, walk, watcher, resolver, lastVars>>
notResolver == <<coreVars, walk, watcher, mapper, lastVars>>
earlyVars == <<coreVars, walk, watcher, mapper, resolver>>
notShut == <<earlyVars, optLevel, casIo, lru>>
notOptLevel == <<earlyVars, shut, casIo, lru>>
notCasIo == <<earlyVars, shut, optLevel, lru>>
notLru == <<earlyVars, shut, optLevel, casIo>>

\* what the operations of one component leave alone (Date.now() apart)
notGraph == <<teVars, hmrVars, verVars, poolVars, devVars, now, manyCall, moreVars>>
notTe == <<graphVars, hmrVars, verVars, poolVars, devVars, manyCall, moreVars>>
notHmr == <<graphVars, teVars, verVars, poolVars, devVars, manyCall, moreVars>>
notVer == <<graphVars, teVars, hmrVars, poolVars, devVars, now, manyCall, moreVars>>
notPool == <<graphVars, teVars, hmrVars, verVars, devVars, now, manyCall, moreVars>>
notDev == <<verVars, poolVars, manyCall, moreVars>>

vars == <<nodes, dirty, saveTimer, gRet, graphFile, envConfigHash, tcStore, cas, now, teCall,
          clients, pending, nextId, hmrClosed, sink, hmrRet, issued, served,
          verIn, verOut, poolOpts, threads, poolWorkers, poolQueue, poolActive,
          poolCallbacks, poolWaiters, pendingBytes, poolClosed, poolCall, closePc,
          poolHist, manyCall, disk, watched, fsEvents, debounce, resolveCache, cssCall,
          applyCall, walk, watcher, mapper, resolver, shut, optLevel, casIo, lru>>

----------------------------------------------------------------------------
(* Generic helpers on sequences.                                           *)

ToSet(s) == { s[i] : i \in 1..Len(s) }

Includes(s, x) == \E i \in 1..Len(s) : s[i] = x

\* Array.prototype.filter
RECURSIVE Filter(_, _)
Filter(s, x) ==
    IF s = <<>> THEN <<>>
    ELSE IF Head(s) = x THEN Filter(Tail(s), x)
    ELSE <<Head(s)>> \o Filter(Tail(s), x)

\* Array.from(new Set(s)): the first occurrence of each element, in order
RECURSIVE Dedupe(_)
Dedupe(s) ==
    IF s = <<>> THEN <<>>
    ELSE <<Head(s)>> \o Dedupe(Filter(Tail(s), Head(s)))

\* Set.prototype.add for each element of s, on the insertion-ordered set r
RECURSIVE AddAll(_, _)
AddAll(r, s) ==
    IF s = <<>> THEN r
    ELSE AddAll(IF Includes(r, Head(s)) THEN r ELSE Append(r, Head(s)), Tail(s))

\* All sequences over S of length at most n
SeqsUpTo(S, n) == UNION { [1..k -> S] : k \in 0..n }

----------------------------------------------------------------------------
(* TransformCache and TransformEngine (part_009)                           *)

\* getCacheKey (module-resolver.ts:220): sha256 hex of the content, taken as
\* collision-free
getCacheKey(content) == <<"sha256", content>>

\* the default of 5000 entries is overridden here, as
\* IONIFY_DEV_TRANSFORM_CACHE_MAX or setMaxEntries() allow, so that entries
\* are evicted
maxEntries == 1
MaxClock == 1
NumCallers == 2

Versions == {"v1", "v2"}

\* Loaders as registered by the caller: test accepts by extension; transform
\* is a function of the loader, of the configuration the engine was built
\* for, and of the context it is given
JsLoader == [name |-> "js", order |-> 0, exts |-> {".ts"}]
CssLoader == [name |-> "css", order |-> 0, exts |-> {".css"}]
HmrLoader == [name |-> "hmr", order |-> 10, exts |-> {".ts", ".css"}]

LoaderTest(loader, ctx) == ctx.ext \in loader.exts

\* Code is the source text and the transforms applied to it so far: what a
\* loader emits depends on the loader, on the configuration (version) of the
\* engine it was registered for, and on the path, extension and code it is given
Source(text) == [src |-> text, stages |-> <<>>]

LoaderTransform(loader, version, ctx) ==
    [ctx.code EXCEPT !.stages =
        Append(@, [by |-> version, loader |-> loader.name, path |-> ctx.path, ext |-> ctx.ext])]

\* useLoader: push, then the stable sort by order
RECURSIVE useLoader(_, _)
useLoader(loaders, loader) ==
    IF loaders = <<>> THEN <<loader>>
    ELSE IF Head(loaders).order <= loader.order
         THEN <<Head(loaders)>> \o useLoader(Tail(loaders), loader)
         ELSE <<loader>> \o loaders

\* new TransformEngine({casRoot, versionHash}) followed by its useLoader calls
Engine(version) ==
    [cacheEnabled |-> TRUE, casRoot |-> TRUE, versionHash |-> version,
     loaders |-> useLoader(useLoader(useLoader(<<>>, HmrLoader), JsLoader), CssLoader)]

\* the loader names joined with "|"
RECURSIVE LoaderSig(_)
LoaderSig(loaders) ==
    IF loaders = <<>> THEN <<>>
    ELSE <<Head(loaders).name>> \o LoaderSig(Tail(loaders))

ModuleHashOf(ctx) == IF ctx.hasHash THEN ctx.moduleHash ELSE getCacheKey(ctx.code)

MemKey(engine, ctx) == <<ModuleHashOf(ctx), getCacheKey(LoaderSig(engine.loaders))>>

\* getCasArtifactPath (public-path.ts:47) joined with "transformed.js"
getCasArtifactPath(casRoot, versionHash, moduleHash) == <<versionHash, moduleHash>>

CasFile(engine, ctx) ==
    getCasArtifactPath(engine.casRoot, engine.versionHash, ModuleHashOf(ctx))

HasCasFile(engine, ctx) ==
    /\ engine.casRoot
    /\ CasFile(engine, ctx) \in DOMAIN cas

\* TransformCache.store lookups
TcHas(key) == \E i \in 1..Len(tcStore) : tcStore[i].key = key
TcEntry(key) == tcStore[CHOOSE i \in 1..Len(tcStore) : tcStore[i].key = key]

\* a get that leaves the timestamp as it is
TcTouch_NoRefresh(store, key, t) == store

\* TransformCache.get on a hit: the entry's timestamp becomes Date.now()
TcTouch(store, key, t) ==
    [i \in 1..Len(store) |->
        IF store[i].key = key THEN [store[i] EXCEPT !.timestamp = t] ELSE store[i]]

\* the index prune() deletes first: the oldest timestamp and, the sort being
\* stable, the earliest Map position among equals
OldestIndex(store) ==
    CHOOSE i \in 1..Len(store) :
        \A j \in 1..Len(store) :
            \/ store[i].timestamp < store[j].timestamp
            \/ (store[i].timestamp = store[j].timestamp /\ i <= j)

RemoveAt(s, i) == [j \in 1..(Len(s) - 1) |-> IF j < i THEN s[j] ELSE s[j + 1]]

\* TransformCache.prune
RECURSIVE prune(_, _)
prune(store, limit) ==
    IF Len(store) <= limit THEN store
    ELSE prune(RemoveAt(store, OldestIndex(store)), limit)

\* a TransformCache.set that stores nothing
TcSet_Dropped(store, key, transformed, t) == store

\* this.store.set(key, entry): an existing key keeps its place in the Map
StoreSet(store, entry) ==
    IF \E i \in 1..Len(store) : store[i].key = entry.key
    THEN [i \in 1..Len(store) |-> IF store[i].key = entry.key THEN entry ELSE store[i]]
    ELSE Append(store, entry)

\* TransformCache.set: Map.set, then prune
TcSet(store, key, transformed, t) ==
    prune(StoreSet(store, [key |-> key, transformed |-> transformed, timestamp |-> t]),
          maxEntries)

\* the loader loop of run(): each matching loader sees the code of the one before
RECURSIVE RunChain(_, _, _)
RunChain(loaders, version, working) ==
    IF loaders = <<>> THEN working.code
    ELSE IF ~LoaderTest(Head(loaders), working)
         THEN RunChain(Tail(loaders), version, working)
         ELSE RunChain(Tail(loaders), version,
                       [working EXCEPT !.code = LoaderTransform(Head(loaders), version, working)])

Callers == 1..NumCallers

NoCtx == [path |-> "", code |-> Source(""), ext |-> "", hasHash |-> FALSE, moduleHash |-> <<>>]

Idle == [pc |-> "idle", version |-> "", ctx |-> NoCtx, code |-> Source(""), via |-> ""]

\* run() up to its first suspension in the loader loop: the memory cache,
\* then the CAS, then the start of the chain.  readOk = FALSE is
\* readFileSync throwing, which run() ignores.
RunStart(p, version, ctx, readOk) ==
    LET engine == Engine(version)
        memKey == MemKey(engine, ctx)
    IN /\ teCall[p].pc # "chain"
       /\ IF engine.cacheEnabled /\ TcHas(memKey)
          THEN /\ tcStore' = TcTouch(tcStore, memKey, now)
               /\ teCall' = [teCall EXCEPT ![p] =
                    [pc |-> "done", version |-> version, ctx |-> ctx,
                     code |-> TcEntry(memKey).transformed, via |-> "mem"]]
          ELSE IF engine.cacheEnabled /\ HasCasFile(engine, ctx) /\ readOk
          THEN /\ tcStore' = TcSet(tcStore, memKey, cas[CasFile(engine, ctx)], now)
               /\ teCall' = [teCall EXCEPT ![p] =
                    [pc |-> "done", version |-> version, ctx |-> ctx,
                     code |-> cas[CasFile(engine, ctx)], via |-> "cas"]]
          ELSE /\ tcStore' = tcStore
               /\ teCall' = [teCall EXCEPT ![p] =
                    [pc |-> "chain", version |-> version, ctx |-> ctx,
                     code |-> Source(""), via |-> ""]]
       /\ UNCHANGED <<cas, now>>

\* run() from the end of the loader loop: store in the memory cache, write
\* the CAS file (writeOk = FALSE is mkdirSync or writeFileSync throwing,
\* which run() ignores), return the result
RunFinish(p, writeOk) ==
    LET c == teCall[p]
        engine == Engine(c.version)
        result == RunChain(engine.loaders, c.version, c.ctx)
    IN /\ c.pc = "chain"
       /\ tcStore' = IF engine.cacheEnabled
                     THEN TcSet(tcStore, MemKey(engine, c.ctx), result, now)
                     ELSE tcStore
       /\ cas' = IF engine.cacheEnabled /\ engine.casRoot /\ writeOk
                 THEN [f \in DOMAIN cas \cup {CasFile(engine, c.ctx)} |->
                         IF f = CasFile(engine, c.ctx) THEN result ELSE cas[f]]
                 ELSE cas
       /\ teCall' = [teCall EXCEPT ![p] = [c EXCEPT !.pc = "done", !.code = result, !.via = "chain"]]
       /\ now' = now

\* Date.now() moves on
Tick == now < MaxClock /\ now' = now + 1

Ctx(path, text, ext) ==
    [path |-> path, code |-> Source(text), ext |-> ext, hasHash |-> FALSE, moduleHash |-> <<>>]

TeCtxs == { Ctx("/m1.ts", "s1", ".ts"), Ctx("/m2.ts", "s2", ".ts") }

TeInit ==
    /\ tcStore = <<>>
    /\ cas = <<>>
    /\ now = 0
    /\ teCall = [p \in Callers |-> Idle]

TeRun ==
    /\ \E p \in Callers, v \in Versions, ctx \in TeCtxs, readOk \in BOOLEAN :
            RunStart(p, v, ctx, readOk)
    /\ UNCHANGED notTe

\* run() calls of one engine that do not overlap, on two files with the
\* same content and a third file
TeRunCopies ==
    /\ \A q \in Callers : teCall[q].pc # "chain"
    /\ \E p \in Callers, readOk \in BOOLEAN :
          \E ctx \in { Ctx("/m1.ts", "s1", ".ts"), Ctx("/m2.ts", "s1", ".ts"),
                       Ctx("/m3.ts", "s3", ".ts") } :
             RunStart(p, "v1", ctx, readOk)
    /\ UNCHANGED notTe

TeFinish ==
    /\ \E p \in Callers, writeOk \in BOOLEAN : RunFinish(p, writeOk)
    /\ UNCHANGED notTe

TeTick == Tick /\ UNCHANGED <<tcStore, cas, teCall>> /\ UNCHANGED notTe

----------------------------------------------------------------------------
(* HMRServer (part_011)                                                    *)

Sinks == {"r1", "r2"}
MaxUpdates == 2

\* an id made of the timestamp alone
UpdateId_TimestampOnly(timestamp, n) == <<timestamp, 1>>

\* `${timestamp}-${this.nextId++}`
UpdateId(timestamp, n) == <<timestamp, n>>

\* the ids a client may send to the apply endpoint
UpdateIds == { UpdateId(t, n) : t \in 0..MaxClock, n \in 1..MaxUpdates }

PendingHMRModule(absPath, hash, reason) ==
    [absPath |-> absPath, url |-> absPath, hash |-> hash, reason |-> reason]

\* modules.map(({ url, hash, reason }) => ({ url, hash, reason }))
RECURSIVE Summaries(_)
Summaries(modules) ==
    IF modules = <<>> THEN <<>>
    ELSE <<[url |-> Head(modules).url, hash |-> Head(modules).hash,
            reason |-> Head(modules).reason]>> \o Summaries(Tail(modules))

\* a send that puts the data in front of what the client was sent before
Send_InFront(event, payload) ==
    [r \in Sinks |->
        IF r \in clients /\ sink[r].state = "open"
        THEN [sink[r] EXCEPT !.log = <<[event |-> event, data |-> payload]>> \o @]
        ELSE IF r \in clients /\ sink[r].state = "stalled"
        THEN [sink[r] EXCEPT !.failed = TRUE, !.retried = sink[r].failed]
        ELSE sink[r]]

\* send: client.write(data) on every client; a throwing write is swallowed.
\* An ended response takes no more data.  On a stalled sink (its client
\* reads no more, or its connection is broken and "close" has not come yet)
\* the write throws or returns false: `failed` notes that this happened,
\* `retried` that a later send wrote to the sink again.
Send(event, payload) ==
    [r \in Sinks |->
        IF r \in clients /\ sink[r].state = "open"
        THEN [sink[r] EXCEPT !.log = Append(@, [event |-> event, data |-> payload])]
        ELSE IF r \in clients /\ sink[r].state = "stalled"
        THEN [sink[r] EXCEPT !.failed = TRUE, !.retried = sink[r].failed]
        ELSE sink[r]]

\* handleSSE(req, res)
handleSSE(r) ==
    /\ sink[r].state = "new"
    /\ IF hmrClosed
       THEN /\ sink' = [sink EXCEPT ![r].state = "ended"]
            /\ clients' = clients
       ELSE /\ sink' = [sink EXCEPT ![r] =
                         [state |-> "open",
                          log |-> <<[event |-> "ready", data |-> <<"ok">>]>>,
                          failed |-> FALSE, retried |-> FALSE]]
            /\ clients' = clients \cup {r}
    /\ UNCHANGED <<pending, nextId, hmrClosed, hmrRet, issued, served, now>>

\* req.on("close"): the client goes away
OnReqClose(r) ==
    /\ sink[r].state \in {"open", "stalled"}
    /\ clients' = clients \ {r}
    /\ sink' = [sink EXCEPT ![r].state = "ended"]
    /\ UNCHANGED <<pending, nextId, hmrClosed, hmrRet, issued, served, now>>

\* the client of an open sink stops reading, or its connection breaks
SinkStalls(r) ==
    /\ sink[r].state = "open"
    /\ sink' = [sink EXCEPT ![r].state = "stalled"]
    /\ UNCHANGED <<clients, pending, nextId, hmrClosed, hmrRet, issued, served, now>>

\* queueUpdate(modules)
queueUpdate(modules) ==
    /\ nextId <= MaxUpdates
    /\ IF modules = <<>>
       THEN UNCHANGED <<pending, nextId, sink, issued>>
       ELSE LET id == UpdateId(now, nextId)
                summary == [id |-> id, timestamp |-> now, modules |-> Summaries(modules)]
            IN /\ nextId' = nextId + 1
               /\ pending' = [i \in DOMAIN pending \cup {id} |->
                                IF i = id
                                THEN [summary |-> summary, modules |-> modules, createdAt |-> now]
                                ELSE pending[i]]
               /\ sink' = Send("update", <<id>>)
               /\ issued' = issued \cup {id}
    /\ UNCHANGED <<clients, hmrClosed, hmrRet, served, now>>

\* a consumeUpdate that forgets this.pending.delete(id)
PendingAfterConsume_NoDelete(id) == pending

\* this.pending after consumeUpdate(id)
PendingAfterConsume(id) ==
    IF id \in DOMAIN pending
    THEN [i \in DOMAIN pending \ {id} |-> pending[i]]
    ELSE pending

\* consumeUpdate(id), as called by the apply endpoint (dev.ts:433)
consumeUpdate(id) ==
    /\ pending' = PendingAfterConsume(id)
    /\ hmrRet' = [op |-> "consume", id |-> id, found |-> id \in DOMAIN pending,
                  again |-> id \in served]
    /\ served' = IF id \in DOMAIN pending THEN served \cup {id} ELSE served
    /\ UNCHANGED <<clients, nextId, hmrClosed, sink, issued, now>>

\* close()
HmrCloseOp ==
    /\ hmrClosed' = TRUE
    /\ sink' = [r \in Sinks |-> IF r \in clients THEN [sink[r] EXCEPT !.state = "ended"] ELSE sink[r]]
    /\ clients' = {}
    /\ pending' = <<>>
    /\ UNCHANGED <<nextId, hmrRet, issued, served, now>>

HmrModuleLists ==
    { <<>>,
      <<PendingHMRModule("/F", "h1", "changed")>>,
      <<PendingHMRModule("/F", "h1", "changed"), PendingHMRModule("/G", "h2", "dependent")>> }

HmrInit ==
    /\ clients = {}
    /\ pending = <<>>
    /\ nextId = 1
    /\ hmrClosed = FALSE
    /\ sink = [r \in Sinks |-> [state |-> "new", log |-> <<>>,
                                 failed |-> FALSE, retried |-> FALSE]]
    /\ hmrRet = [op |-> "new", id |-> UpdateId(0, 0), found |-> FALSE, again |-> FALSE]
    /\ issued = {}
    /\ served = {}

HmrSubscribe == (\E r \in Sinks : handleSSE(r)) /\ UNCHANGED notHmr

HmrDisconnect == (\E r \in Sinks : OnReqClose(r)) /\ UNCHANGED notHmr

HmrStall == (\E r \in Sinks : SinkStalls(r)) /\ UNCHANGED notHmr

HmrQueue == (\E modules \in HmrModuleLists : queueUpdate(modules)) /\ UNCHANGED notHmr

HmrApply == (\E id \in UpdateIds : consumeUpdate(id)) /\ UNCHANGED notHmr

HmrClose == HmrCloseOp /\ UNCHANGED notHmr

HmrTick == Tick /\ UNCHANGED hmrVars /\ UNCHANGED notHmr

----------------------------------------------------------------------------
(* Graph (part_010)                                                        *)

Ids == {"A", "B", "C"}
MaxDeps == 1
MaxDyn == 1
MaxSeeds == 2

\* GraphNode: dynamicDeps is optional; hasDyn = FALSE is `undefined`.
\* configHash "" is null.
GraphNode(id, hash, deps, hasDyn, dyn, configHash) ==
    [id |-> id, hash |-> hash, deps |-> deps, hasDyn |-> hasDyn, dynamicDeps |-> dyn,
     configHash |-> configHash]

HasNode(id) == \E i \in 1..Len(nodes) : nodes[i].id = id

\* Map.prototype.get
getNode(id) == nodes[CHOOSE i \in 1..Len(nodes) : nodes[i].id = id]

\* Map.prototype.set: an existing key keeps its place, a new key goes last
MapSet(m, node) ==
    IF \E i \in 1..Len(m) : m[i].id = node.id
    THEN [i \in 1..Len(m) |-> IF m[i].id = node.id THEN node ELSE m[i]]
    ELSE Append(m, node)

\* Map.prototype.delete
RECURSIVE MapDelete(_, _)
MapDelete(m, id) ==
    IF m = <<>> THEN <<>>
    ELSE IF Head(m).id = id THEN MapDelete(Tail(m), id)
    ELSE <<Head(m)>> \o MapDelete(Tail(m), id)

getDeps(id) == IF HasNode(id) THEN getNode(id).deps ELSE <<>>

\* queueSave: native is null
QueueSave == dirty' = TRUE /\ saveTimer' = TRUE

\* recordFile(absPath, contentHash, depsAbs, dynamicDeps?): hasDyn says whether
\* the optional argument was passed
RecordFile(absPath, contentHash, depsAbs, hasDyn, dynamicDeps) ==
    LET changed == ~HasNode(absPath) \/ getNode(absPath).hash # contentHash
        configHash == envConfigHash
        node == GraphNode(absPath, contentHash, Dedupe(depsAbs), hasDyn,
                          IF hasDyn THEN Dedupe(dynamicDeps) ELSE <<>>, configHash)
    IN /\ nodes' = MapSet(nodes, node)
       /\ QueueSave
       /\ gRet' = [op |-> "recordFile", id |-> absPath, changed |-> changed]

\* the ids of the Map entries, in iteration order, whose deps include target
RECURSIVE DependentsIn(_, _)
DependentsIn(m, target) ==
    IF m = <<>> THEN <<>>
    ELSE (IF Includes(Head(m).deps, target) THEN <<Head(m).id>> ELSE <<>>)
         \o DependentsIn(Tail(m), target)

getDependents(targetAbs) == DependentsIn(nodes, targetAbs)

\* the while loop of collectDependentsDeep: queue and result
RECURSIVE DeepLoop(_, _)
DeepLoop(queue, result) ==
    IF queue = <<>> THEN result
    ELSE LET fresh == SelectSeq(Dedupe(getDependents(Head(queue))),
                                LAMBDA d : ~Includes(result, d))
         IN DeepLoop(Tail(queue) \o fresh, result \o fresh)

collectDependentsDeep(targetAbs) == DeepLoop(<<targetAbs>>, <<>>)

\* the fallback loop of collectAffected over the remaining targets
RECURSIVE AffectedLoop(_, _)
AffectedLoop(targets, result) ==
    IF targets = <<>> THEN result
    ELSE AffectedLoop(Tail(targets),
                      AddAll(AddAll(result, <<Head(targets)>>),
                             collectDependentsDeep(Head(targets))))

\* collectAffected: usedNative is false, so the first loop over `changed`
\* is followed by the JS traversal
collectAffected(changed) == AffectedLoop(changed, AddAll(<<>>, changed))

\* removeFile
RemoveFile(absPath) ==
    /\ gRet' = [op |-> "removeFile", id |-> absPath, changed |-> HasNode(absPath)]
    /\ IF HasNode(absPath)
       THEN /\ nodes' = [i \in 1..(Len(nodes) - 1) |->
                           LET n == MapDelete(nodes, absPath)[i]
                           IN [n EXCEPT !.deps = Filter(n.deps, absPath)]]
            /\ QueueSave
       ELSE UNCHANGED <<nodes, dirty, saveTimer>>

\* save(): writeFileSync may throw, which is swallowed; the timer is
\* cleared either way
Save(writeOk) ==
    /\ IF writeOk
       THEN graphFile' = [exists |-> TRUE, nodes |-> nodes] /\ dirty' = FALSE
       ELSE UNCHANGED <<graphFile, dirty>>
    /\ saveTimer' = FALSE

\* loadFromDisk(): every node of the snapshot goes into this.nodes
loadFromDisk == IF graphFile.exists THEN graphFile.nodes ELSE <<>>

\* The process ends and a new one starts: dev.ts sets IONIFY_CONFIG_HASH to
\* its version hash and constructs the Graph, which loads the snapshot.
NewGraph(configHash) ==
    /\ envConfigHash' = configHash
    /\ nodes' = loadFromDisk
    /\ dirty' = FALSE
    /\ saveTimer' = FALSE
    /\ gRet' = [op |-> "load", id |-> "", changed |-> FALSE]
    /\ UNCHANGED graphFile

GraphInit ==
    /\ nodes = <<>>
    /\ dirty = FALSE
    /\ saveTimer = FALSE
    /\ gRet = [op |-> "new", id |-> "", changed |-> FALSE]
    /\ graphFile = [exists |-> FALSE, nodes |-> <<>>]
    /\ envConfigHash = "v1"

GraphRecord ==
    /\ \E id \in Ids, d \in SeqsUpTo(Ids, MaxDeps), hasDyn \in BOOLEAN :
          \E dd \in (IF hasDyn THEN SeqsUpTo(Ids, MaxDyn) \ {<<>>} ELSE {<<>>}) :
             RecordFile(id, "h1", d, hasDyn, dd)
    /\ UNCHANGED <<graphFile, envConfigHash>>
    /\ UNCHANGED notGraph

GraphRemove ==
    /\ \E id \in Ids : RemoveFile(id)
    /\ UNCHANGED <<graphFile, envConfigHash>>
    /\ UNCHANGED notGraph

\* recordFile with content hashes that vary, on two files
GraphRecordHash ==
    /\ \E id \in {"A", "B"}, h \in {"h1", "h2"}, d \in SeqsUpTo({"B"}, MaxDeps) :
          RecordFile(id, h, d, FALSE, <<>>)
    /\ UNCHANGED <<graphFile, envConfigHash>>
    /\ UNCHANGED notGraph

\* the 300ms timer of queueSave fires
GraphSave ==
    /\ saveTimer
    /\ \E writeOk \in BOOLEAN : Save(writeOk)
    /\ UNCHANGED <<nodes, gRet, envConfigHash>>
    /\ UNCHANGED notGraph

\* flush(): it returns nothing, whether or not save() could write
GraphFlush ==
    /\ IF dirty
       THEN \E writeOk \in BOOLEAN : Save(writeOk)
       ELSE UNCHANGED <<graphFile, dirty, saveTimer>>
    /\ gRet' = [op |-> "flush", id |-> "", changed |-> FALSE]
    /\ UNCHANGED <<nodes, envConfigHash>>
    /\ UNCHANGED notGraph

GraphRestart ==
    /\ \E configHash \in Versions : NewGraph(configHash)
    /\ UNCHANGED notGraph

\* A project of five modules and what each may import: /X imports /S1 and
\* perhaps itself, /Y imports /X, /Z imports /S2, and /S1 may import /Y,
\* which closes a cycle.
Modules == {"S1", "S2", "X", "Y", "Z"}

ModuleImports ==
    [m \in Modules |->
        IF m = "S1" THEN {<<>>, <<"Y">>}
        ELSE IF m = "X" THEN {<<"S1">>, <<"S1", "X">>}
        ELSE IF m = "Y" THEN {<<"X">>}
        ELSE IF m = "Z" THEN {<<"S2">>}
        ELSE {<<>>}]

\* the body of the while loop of collectDependentsDeep: the dependents of
\* `current` that are not in `result` yet
FreshDependents_Unchecked(current, result) == Dedupe(getDependents(current))

FreshDependents(current, result) ==
    SelectSeq(Dedupe(getDependents(current)), LAMBDA d : ~Includes(result, d))

WalkIdle == [pc |-> "idle", changed |-> <<>>, rest |-> <<>>, queue |-> <<>>, deep |-> <<>>,
             result |-> <<>>]

\* recordFile on the modules of the project; collectAffected is synchronous,
\* nothing is recorded while it runs
GraphRecordModule ==
    /\ walk.pc # "deep"
    /\ \E id \in Modules : \E d \in ModuleImports[id] : RecordFile(id, "h1", d, FALSE, <<>>)
    /\ UNCHANGED <<graphFile, envConfigHash>>
    /\ UNCHANGED notGraph

\* collectAffected(changed) up to the first call of collectDependentsDeep:
\* the seeds go into result, then the first target
CollectAffectedStart ==
    /\ walk.pc \in {"idle", "done"}
    /\ \E changed \in SeqsUpTo({"S1", "S2"}, MaxSeeds) :
          walk' = IF changed = <<>>
                  THEN [WalkIdle EXCEPT !.pc = "done"]
                  ELSE [pc |-> "deep", changed |-> changed, rest |-> changed,
                        queue |-> <<Head(changed)>>, deep |-> <<>>,
                        result |-> AddAll(<<>>, changed)]
    /\ UNCHANGED notWalk

\* one turn of the while loop of collectDependentsDeep
DeepStep ==
    /\ walk.pc = "deep"
    /\ walk.queue # <<>>
    /\ LET fresh == FreshDependents(Head(walk.queue), walk.deep)
       IN walk' = [walk EXCEPT !.queue = Tail(@) \o fresh, !.deep = AddAll(@, fresh)]
    /\ UNCHANGED notWalk

\* collectDependentsDeep returns: its result is added, and the for loop of
\* collectAffected goes to the next target or ends
DeepReturn ==
    /\ walk.pc = "deep"
    /\ walk.queue = <<>>
    /\ LET result == AddAll(walk.result, walk.deep)
           rest == Tail(walk.rest)
       IN walk' = IF rest = <<>>
                  THEN [walk EXCEPT !.pc = "done", !.rest = <<>>, !.result = result]
                  ELSE [walk EXCEPT !.rest = rest, !.queue = <<Head(rest)>>, !.deep = <<>>,
                                    !.result = AddAll(result, <<Head(rest)>>)]
    /\ UNCHANGED notWalk

----------------------------------------------------------------------------
(* The version hash (src/core/version.ts, part_014)                        *)

\* The strings this model sorts, in the order of Array.prototype.sort()
\* (UTF-16 code units): list elements "a" and "b", and the property names
\* of CanonicalVersionInputs.
CodeUnitOrder ==
    <<"a", "assetOptions", "b", "cssOptions", "entry", "minifier",
      "parserMode", "plugins", "scopeHoist", "treeshake">>

StringRank(s) == CHOOSE i \in 1..Len(CodeUnitOrder) : CodeUnitOrder[i] = s

\* the list as it is
SortStrings_KeepOrder(s) == s

RECURSIVE SortInsert(_, _)
SortInsert(x, s) ==
    IF s = <<>> THEN <<x>>
    ELSE IF StringRank(x) < StringRank(Head(s)) THEN <<x>> \o s
    ELSE <<Head(s)>> \o SortInsert(x, Tail(s))

\* [...list].sort()
RECURSIVE SortStrings(_)
SortStrings(s) ==
    IF s = <<>> THEN <<>>
    ELSE SortInsert(Head(s), SortStrings(Tail(s)))

\* JavaScript values: null, strings, booleans, arrays and objects.  An
\* object is the sequence of its properties in insertion order; an array
\* is the sequence of its elements (k is unused).
JNull == [t |-> "null", v |-> "", items |-> <<>>]
JStr(s) == [t |-> "string", v |-> s, items |-> <<>>]
JBool(b) == [t |-> "boolean", v |-> IF b THEN "true" ELSE "false", items |-> <<>>]
JArr(s) == [t |-> "array", v |-> "", items |-> [i \in 1..Len(s) |-> [k |-> "", val |-> JStr(s[i])]]]
JProp(key, value) == [k |-> key, val |-> value]
JObj(props) == [t |-> "object", v |-> "", items |-> props]

\* Object.keys(obj)
ObjectKeys(obj) == [i \in 1..Len(obj.items) |-> obj.items[i].k]

HasProp(obj, key) == \E i \in 1..Len(obj.items) : obj.items[i].k = key

GetProp(obj, key) == obj.items[CHOOSE i \in 1..Len(obj.items) : obj.items[i].k = key].val

\* The treeshake option: undefined, false, true, a string, or an object
TsValue(kind, mode, include, exclude) ==
    [kind |-> kind, mode |-> mode, include |-> include, exclude |-> exclude]

normalizeTreeshake(treeshake) ==
    IF treeshake.kind \in {"false", "undefined", "null"} THEN JNull
    ELSE IF treeshake.kind = "true" THEN
        JObj(<<JProp("mode", JStr("safe")),
               JProp("include", JArr(<<>>)),
               JProp("exclude", JArr(<<>>))>>)
    ELSE IF treeshake.kind = "string" THEN
        JObj(<<JProp("mode", JStr(IF treeshake.mode = "aggressive" THEN "aggressive" ELSE "safe")),
               JProp("include", JArr(<<>>)),
               JProp("exclude", JArr(<<>>))>>)
    ELSE
        JObj(<<JProp("mode", JStr(IF treeshake.mode = "aggressive" THEN "aggressive" ELSE "safe")),
               JProp("include", JArr(SortStrings(treeshake.include))),
               JProp("exclude", JArr(SortStrings(treeshake.exclude)))>>)

\* The scopeHoist option: undefined, false, true, or an object of flags
\* (a flag that is absent or not `true` is FALSE here)
ShValue(kind, inlineFunctions, constantFolding, combineVariables) ==
    [kind |-> kind, inlineFunctions |-> inlineFunctions,
     constantFolding |-> constantFolding, combineVariables |-> combineVariables]

normalizeScopeHoist(scopeHoist) ==
    IF scopeHoist.kind \in {"false", "undefined", "null"} THEN JNull
    ELSE IF scopeHoist.kind = "true" THEN
        JObj(<<JProp("inlineFunctions", JBool(TRUE)),
               JProp("constantFolding", JBool(TRUE)),
               JProp("combineVariables", JBool(TRUE))>>)
    ELSE
        JObj(<<JProp("inlineFunctions", JBool(scopeHoist.inlineFunctions = TRUE)),
               JProp("constantFolding", JBool(scopeHoist.constantFolding = TRUE)),
               JProp("combineVariables", JBool(scopeHoist.combineVariables = TRUE))>>)

\* A list option (plugins, entry): undefined, one string, or an array
ListValue(kind, items) == [kind |-> kind, items |-> items]

\* An options object (cssOptions, assetOptions): undefined or an object
OptValue(defined, props) == [defined |-> defined, isNull |-> FALSE, props |-> props]

\* `null` given for an options object
OptNull == [defined |-> TRUE, isNull |-> TRUE, props |-> <<>>]

\* a string option that is undefined ("") or null is falsy
Falsy(str) == str \in {"", "null"}

computeCanonicalVersionInputs(config) ==
    LET parserMode == IF Falsy(config.parserMode) THEN "hybrid" ELSE config.parserMode
        minifier == IF Falsy(config.minifier) THEN "auto" ELSE config.minifier
        treeshake == normalizeTreeshake(config.treeshake)
        scopeHoist == normalizeScopeHoist(config.scopeHoist)
        plugins == IF config.plugins.kind = "array"
                   THEN SortStrings(config.plugins.items)
                   ELSE <<>>
        entry == IF config.entry.kind = "string" THEN JArr(config.entry.items)
                 ELSE IF config.entry.kind = "array" THEN JArr(SortStrings(config.entry.items))
                 ELSE JNull
        cssOptions == IF /\ config.cssOptions.defined /\ ~config.cssOptions.isNull
                         /\ Len(config.cssOptions.props) > 0
                      THEN JObj(config.cssOptions.props)
                      ELSE JNull
        assetOptions == IF /\ config.assetOptions.defined /\ ~config.assetOptions.isNull
                           /\ Len(config.assetOptions.props) > 0
                        THEN JObj(config.assetOptions.props)
                        ELSE JNull
    IN JObj(<<JProp("parserMode", JStr(parserMode)),
              JProp("minifier", JStr(minifier)),
              JProp("treeshake", treeshake),
              JProp("scopeHoist", scopeHoist),
              JProp("plugins", JArr(plugins)),
              JProp("entry", entry),
              JProp("cssOptions", cssOptions),
              JProp("assetOptions", assetOptions)>>)

\* JSON.stringify(value, replacer) with an array replacer: the array is the
\* property list of EVERY object that is serialized, the nested ones
\* included; each object is written with the listed properties it has, in
\* the list's order.  Array elements are all written.  The text is kept as
\* its parse tree.
RECURSIVE JsonStringify(_, _), SerializeJSONObject(_, _, _)
JsonStringify(value, replacer) ==
    IF value.t = "object" THEN
        JObj(SerializeJSONObject(value, replacer, replacer))
    ELSE IF value.t = "array" THEN
        [t |-> "array", v |-> "",
         items |-> [i \in 1..Len(value.items) |->
                       JProp("", JsonStringify(value.items[i].val, replacer))]]
    ELSE value

SerializeJSONObject(obj, rest, replacer) ==
    IF rest = <<>> THEN <<>>
    ELSE IF HasProp(obj, Head(rest)) THEN
        <<JProp(Head(rest), JsonStringify(GetProp(obj, Head(rest)), replacer))>>
            \o SerializeJSONObject(obj, Tail(rest), replacer)
    ELSE SerializeJSONObject(obj, Tail(rest), replacer)

\* createHash("sha256").update(json).digest("hex").slice(0, 16), taken to
\* be free of collisions
Sha256Hex16(json) == <<"sha256:16", json>>

computeVersionHash(inputs) ==
    LET json == JsonStringify(inputs, SortStrings(ObjectKeys(inputs)))
    IN Sha256Hex16(json)

computeGraphVersion(inputs) ==
    computeVersionHash(computeCanonicalVersionInputs(inputs))

\* The configurations the hash is computed for
TsUndefined == TsValue("undefined", "", <<>>, <<>>)
ShUndefined == ShValue("undefined", FALSE, FALSE, FALSE)
ListUndefined == ListValue("undefined", <<>>)
OptUndefined == OptValue(FALSE, <<>>)

DefaultInputs ==
    [parserMode |-> "", minifier |-> "", treeshake |-> TsUndefined,
     scopeHoist |-> ShUndefined, plugins |-> ListUndefined, entry |-> ListUndefined,
     cssOptions |-> OptUndefined, assetOptions |-> OptUndefined]

\* how many options a configuration sets
MaxOptionsSet == 1

\* the values each option is given
VersionOptionValues ==
    [parserMode |-> {"", "null", "oxc", "hybrid"},
    minifier |-> {"", "null", "swc", "auto"},
    treeshake |->
        { TsUndefined,
          TsValue("null", "", <<>>, <<>>),
          TsValue("false", "", <<>>, <<>>),
          TsValue("true", "", <<>>, <<>>),
          TsValue("string", "safe", <<>>, <<>>),
          TsValue("string", "aggressive", <<>>, <<>>),
          TsValue("object", "safe", <<"b", "a">>, <<>>),
          TsValue("object", "safe", <<"a", "b">>, <<>>),
          TsValue("object", "safe", <<>>, <<"a">>) },
    scopeHoist |->
        { ShUndefined,
          ShValue("null", FALSE, FALSE, FALSE),
          ShValue("false", FALSE, FALSE, FALSE),
          ShValue("true", FALSE, FALSE, FALSE),
          ShValue("object", TRUE, FALSE, FALSE),
          ShValue("object", FALSE, FALSE, FALSE) },
    plugins |->
        { ListUndefined,
          ListValue("null", <<>>),
          ListValue("array", <<"a">>),
          ListValue("array", <<"a", "b">>),
          ListValue("array", <<"b", "a">>) },
    entry |->
        { ListUndefined,
          ListValue("null", <<>>),
          ListValue("string", <<"a">>),
          ListValue("array", <<"a">>),
          ListValue("array", <<"a", "b">>),
          ListValue("array", <<"b", "a">>) },
    cssOptions |->
        { OptUndefined,
          OptNull,
          OptValue(TRUE, <<>>),
          OptValue(TRUE, <<JProp("modules", JStr("x"))>>),
          OptValue(TRUE, <<JProp("modules", JStr("y"))>>),
          OptValue(TRUE, <<JProp("modules", JStr("x")), JProp("sourceMap", JStr("y"))>>),
          OptValue(TRUE, <<JProp("sourceMap", JStr("y")), JProp("modules", JStr("x"))>>) },
    assetOptions |->
        { OptUndefined,
          OptNull,
          OptValue(TRUE, <<JProp("inlineLimit", JStr("x"))>>),
          OptValue(TRUE, <<JProp("inlineLimit", JStr("y"))>>) }]

\* the configurations that set at most n options of `base` anew
RECURSIVE SetOptions(_, _)
SetOptions(n, base) ==
    IF n = 0 THEN {base}
    ELSE {base} \cup UNION { UNION { SetOptions(n - 1, [base EXCEPT ![f] = v]) :
                                        v \in VersionOptionValues[f] } :
                                f \in DOMAIN base }

VersionInputs == SetOptions(MaxOptionsSet, DefaultInputs)

NoVersion == [done |-> FALSE, hash |-> Sha256Hex16(JNull)]

\* two configurations, as dev.ts and build.ts hand them to computeGraphVersion
VerInit ==
    /\ verIn \in [a : VersionInputs, b : VersionInputs]
    /\ verOut = [a |-> NoVersion, b |-> NoVersion]

\* the other components never compute a version of their own
VerIdle ==
    /\ verIn = [a |-> DefaultInputs, b |-> DefaultInputs]
    /\ verOut = [a |-> NoVersion, b |-> NoVersion]

VerCompute ==
    /\ \E w \in {"a", "b"} :
          /\ ~verOut[w].done
          /\ verOut' = [verOut EXCEPT ![w] = [done |-> TRUE, hash |-> computeGraphVersion(verIn[w])]]
    /\ UNCHANGED verIn
    /\ UNCHANGED notVer

----------------------------------------------------------------------------
(* TransformWorkerPool (part_012)                                          *)
(*                                                                         *)
(* this.workers, this.queue, this.active, this.callbacks, this.waiters and *)
(* this.closed are poolWorkers, poolQueue, poolActive, poolCallbacks,      *)
(* poolWaiters and poolClosed.  A Worker is its threadId; `threads` holds  *)
(* the worker threads themselves.  Each job is submitted by one caller,    *)
(* named like the job.                                                     *)

Jobs == {"j1", "j2", "j3"}

\* job.code of each job
JobCode == [j \in Jobs |-> <<"x">>]

\* Buffer.byteLength(job.code, "utf8")
ByteLength(code) == Len(code)

\* how many Worker threads are ever created
MaxThreads == 4

\* PoolOptions: size, and maxQueueBytes with 0 for undefined
PoolOptionSets == [size : {1, 2}, maxQueueBytes : {0, 1, 2}]

QueueItem(job) == [job |-> job, size |-> ByteLength(JobCode[job])]

\* new Worker(workerPath): a running thread with no job
NewThread == [st |-> "up", job |-> ""]

NoHist ==
    [requeues |-> <<>>, failures |-> <<>>, spawns |-> <<>>,
     suspLog |-> <<>>, admitLog |-> <<>>, byClose |-> {}]

\* Map.prototype.set and delete on this.active
ActiveSet(a, id, item) == [x \in (DOMAIN a) \cup {id} |-> IF x = id THEN item ELSE a[x]]
ActiveDelete(a, id) == [x \in (DOMAIN a) \ {id} |-> a[x]]

\* workers.find((w) => !this.active.has(w.threadId)): its index, 0 if none
FindIdle(ws, a) ==
    IF \E i \in 1..Len(ws) : ws[i] \notin DOMAIN a
    THEN CHOOSE i \in 1..Len(ws) :
            /\ ws[i] \notin DOMAIN a
            /\ \A k \in 1..(i - 1) : ws[k] \in DOMAIN a
    ELSE 0

\* worker.postMessage(job): a running thread starts the job; a thread that
\* has failed, exited or is being terminated never reads it
PostMessage(ts, id, job) ==
    IF ts[id].st = "up" THEN [ts EXCEPT ![id].job = job] ELSE ts

\* resolveWaiters(): the waiters it resumes, given pendingBytes
resolveWaiters(ws, bytes) ==
    IF poolOpts.maxQueueBytes = 0 THEN <<>>
    ELSE IF bytes < poolOpts.maxQueueBytes THEN ws
    ELSE <<>>

\* the constructor
PoolNew(options) ==
    /\ poolOpts = options
    /\ threads = [i \in 1..options.size |-> NewThread]
    /\ poolWorkers = [i \in 1..options.size |-> i]
    /\ poolQueue = <<>>
    /\ poolActive = <<>>
    /\ poolCallbacks = {}
    /\ poolWaiters = <<>>
    /\ pendingBytes = 0
    /\ poolClosed = FALSE
    /\ poolCall = [c \in Jobs |-> [pc |-> "idle", err |-> ""]]
    /\ closePc = "idle"
    /\ poolHist = NoHist
    /\ manyCall = [pc |-> "idle", jobs |-> <<>>, next |-> 1, resultMap |-> <<>>, ret |-> <<>>]

PoolInit == \E options \in PoolOptionSets : PoolNew(options)

\* the other components run no pool of their own choosing
PoolIdle == PoolNew([size |-> 1, maxQueueBytes |-> 0])

\* a backpressure test that lets every job in
OverLimit_Never(bytes, size) == FALSE

\* the test of run()'s backpressure loop
OverLimit(bytes, size) ==
    poolOpts.maxQueueBytes # 0 /\ bytes + size > poolOpts.maxQueueBytes

\* run(job) from its backpressure loop on: suspend on this.waiters, or
\* count the bytes and hand the job to an idle worker or to the queue
RunLoop(c) ==
    LET size == ByteLength(JobCode[c])
        item == QueueItem(c)
        i == FindIdle(poolWorkers, poolActive)
    IN IF OverLimit(pendingBytes, size)
       THEN /\ poolWaiters' = Append(poolWaiters, c)
            /\ poolCall' = [poolCall EXCEPT ![c].pc = "waiting"]
            /\ poolHist' = [poolHist EXCEPT !.suspLog =
                              IF Includes(@, c) THEN @ ELSE Append(@, c)]
            /\ UNCHANGED <<threads, poolQueue, poolActive, poolCallbacks, pendingBytes>>
       ELSE /\ pendingBytes' = pendingBytes + size
            /\ poolCallbacks' = poolCallbacks \cup {c}
            /\ IF i # 0
               THEN /\ poolActive' = ActiveSet(poolActive, poolWorkers[i], item)
                    /\ threads' = PostMessage(threads, poolWorkers[i], c)
                    /\ UNCHANGED poolQueue
               ELSE /\ poolQueue' = Append(poolQueue, item)
                    /\ UNCHANGED <<threads, poolActive>>
            /\ poolCall' = [poolCall EXCEPT ![c].pc = "submitted"]
            /\ poolHist' = [poolHist EXCEPT !.admitLog = Append(@, c)]
            /\ UNCHANGED poolWaiters

\* run(job), up to its first await
Run(c) ==
    /\ poolCall[c].pc = "idle"
    /\ IF poolClosed
       THEN /\ poolCall' = [poolCall EXCEPT ![c] = [pc |-> "rejected", err |-> "PoolClosed"]]
            /\ UNCHANGED <<threads, poolQueue, poolActive, poolCallbacks, poolWaiters,
                           pendingBytes, poolHist>>
       ELSE RunLoop(c)
    /\ UNCHANGED <<poolOpts, poolWorkers, poolClosed, closePc>>

\* a resumed waiter's setTimeout(50 + Math.random() * 100) fires: the loop
\* condition is evaluated again
Wake(c) ==
    /\ poolCall[c].pc = "sleeping"
    /\ RunLoop(c)
    /\ UNCHANGED <<poolOpts, poolWorkers, poolClosed, closePc>>

\* worker.on("message"): the thread posts the result of its job
OnMessage(id) ==
    LET job == threads[id].job
        hasItem == id \in DOMAIN poolActive
        active1 == IF hasItem THEN ActiveDelete(poolActive, id) ELSE poolActive
        bytes1 == IF hasItem THEN pendingBytes - poolActive[id].size ELSE pendingBytes
        resumed == IF hasItem THEN resolveWaiters(poolWaiters, bytes1) ELSE <<>>
        dequeued == poolQueue # <<>>
        idle == [threads EXCEPT ![id].job = ""]
    IN /\ threads[id].st \in {"up", "exiting"}
       /\ job # ""
       /\ pendingBytes' = bytes1
       /\ poolWaiters' = IF resumed = <<>> THEN poolWaiters ELSE <<>>
       /\ poolCallbacks' = poolCallbacks \ {job}
       /\ poolCall' = [c \in Jobs |->
                         IF c = job /\ job \in poolCallbacks
                         THEN [pc |-> "resolved", err |-> ""]
                         ELSE IF Includes(resumed, c)
                         THEN [poolCall[c] EXCEPT !.pc = "sleeping"]
                         ELSE poolCall[c]]
       /\ IF dequeued
          THEN /\ poolQueue' = Tail(poolQueue)
               /\ poolActive' = ActiveSet(active1, id, Head(poolQueue))
               /\ threads' = PostMessage(idle, id, Head(poolQueue).job)
          ELSE /\ poolQueue' = poolQueue
               /\ poolActive' = active1
               /\ threads' = idle
       /\ UNCHANGED <<poolOpts, poolWorkers, poolClosed, closePc, poolHist>>

\* threads whose "exit" event is still to come after their "error" event
Errored == { i \in 1..Len(threads) : threads[i].st = "errored" }

\* the item a failing worker had in this.active goes to the head of the queue
Requeue(id) ==
    IF id \in DOMAIN poolActive THEN <<poolActive[id]>> \o poolQueue ELSE poolQueue

RequeueLog(id) ==
    IF id \in DOMAIN poolActive
    THEN Append(poolHist.requeues, [worker |-> id, job |-> poolActive[id].job])
    ELSE poolHist.requeues

\* worker.on("error"): an uncaught exception in the thread, while it runs a
\* job; the thread stops and its "exit" event follows
OnError(id) ==
    /\ threads[id].st = "up"
    /\ threads[id].job # ""
    /\ Len(threads) + Cardinality(Errored) + 2 <= MaxThreads
    /\ poolQueue' = Requeue(id)
    /\ poolActive' = ActiveDelete(poolActive, id)
    /\ threads' = Append([threads EXCEPT ![id] = [st |-> "errored", job |-> ""]], NewThread)
    /\ poolWorkers' = Append(poolWorkers, Len(threads) + 1)
    /\ poolHist' = [poolHist EXCEPT
                      !.requeues = RequeueLog(id),
                      !.failures = Append(@, [worker |-> id, job |-> threads[id].job]),
                      !.spawns = Append(@, id)]
    /\ UNCHANGED <<poolOpts, poolCallbacks, poolWaiters, pendingBytes, poolClosed,
                   poolCall, closePc>>

\* worker.on("exit") with exit code `code`: after an "error", after
\* terminate(), or when the thread dies while it runs a job
OnExit(id, code) ==
    LET abnormal == threads[id].st = "up"
        respawn == ~poolClosed /\ code # 0
    IN /\ \/ threads[id].st \in {"errored", "exiting"}
          \/ /\ abnormal
             /\ threads[id].job # ""
             /\ Len(threads) + Cardinality(Errored) + 1 <= MaxThreads
       /\ poolQueue' = Requeue(id)
       /\ poolActive' = ActiveDelete(poolActive, id)
       /\ threads' = LET dead == [threads EXCEPT ![id] = [st |-> "dead", job |-> ""]]
                     IN IF respawn THEN Append(dead, NewThread) ELSE dead
       /\ poolWorkers' = IF respawn THEN Append(poolWorkers, Len(threads) + 1) ELSE poolWorkers
       /\ poolHist' = [poolHist EXCEPT
                         !.requeues = RequeueLog(id),
                         !.failures = IF abnormal
                                      THEN Append(@, [worker |-> id, job |-> threads[id].job])
                                      ELSE @,
                         !.spawns = IF respawn THEN Append(@, id) ELSE @]
       /\ UNCHANGED <<poolOpts, poolCallbacks, poolWaiters, pendingBytes, poolClosed,
                      poolCall, closePc>>

\* close(), up to its await: worker.terminate() on every worker
CloseStart ==
    /\ closePc = "idle"
    /\ poolClosed' = TRUE
    /\ threads' = [i \in 1..Len(threads) |->
                     IF Includes(poolWorkers, i) /\ threads[i].st = "up"
                     THEN [threads[i] EXCEPT !.st = "exiting"]
                     ELSE threads[i]]
    /\ closePc' = "terminating"
    /\ UNCHANGED <<poolOpts, poolWorkers, poolQueue, poolActive, poolCallbacks,
                   poolWaiters, pendingBytes, poolCall, poolHist>>

\* close(), after every terminate() has resolved
CloseFinish ==
    /\ closePc = "terminating"
    /\ \A i \in 1..Len(threads) : Includes(poolWorkers, i) => threads[i].st = "dead"
    /\ poolWorkers' = <<>>
    /\ poolQueue' = <<>>
    /\ poolActive' = <<>>
    /\ poolCallbacks' = {}
    /\ poolCall' = [c \in Jobs |->
                      IF Includes(poolWaiters, c)
                      THEN [poolCall[c] EXCEPT !.pc = "sleeping"]
                      ELSE poolCall[c]]
    /\ poolWaiters' = <<>>
    /\ pendingBytes' = 0
    /\ closePc' = "returned"
    /\ poolHist' = [poolHist EXCEPT !.byClose = @ \cup ToSet(poolWaiters)]
    /\ UNCHANGED <<poolOpts, threads, poolClosed>>

\* runMany() is running: in its synchronous jobs.map, or in the
\* continuation of a run() that has just resolved.  No event handler and no
\* other caller runs meanwhile.
ManyBusy ==
    \/ manyCall.pc = "calling"
    \/ /\ manyCall.pc = "awaiting"
       /\ \E c \in ToSet(manyCall.jobs) :
             /\ poolCall[c].pc = "resolved"
             /\ \A k \in 1..Len(manyCall.resultMap) : manyCall.resultMap[k].id # c

PoolRun == ~ManyBusy /\ (\E c \in Jobs : Run(c)) /\ UNCHANGED notPool

PoolWake == ~ManyBusy /\ (\E c \in Jobs : Wake(c)) /\ UNCHANGED notPool

PoolMessage == ~ManyBusy /\ (\E id \in 1..Len(threads) : OnMessage(id)) /\ UNCHANGED notPool

PoolWorkerError == ~ManyBusy /\ (\E id \in 1..Len(threads) : OnError(id)) /\ UNCHANGED notPool

PoolWorkerExit == ~ManyBusy /\ (\E id \in 1..Len(threads) : OnExit(id, 1)) /\ UNCHANGED notPool

PoolCloseStart == ~ManyBusy /\ CloseStart /\ UNCHANGED notPool

PoolCloseFinish == ~ManyBusy /\ CloseFinish /\ UNCHANGED notPool

\* the message a worker posts for a job (worker.cjs:198-217): it carries
\* the job's id, and callbacks.get(message.id) hands it to that job's caller
JobResult(job) == [id |-> job, code |-> <<"out">> \o JobCode[job]]

\* the lists of jobs handed to runMany: ids are distinct, as the file
\* paths are that build.ts uses for them
JobLists == { s \in SeqsUpTo(Jobs, 3) : \A i, j \in 1..Len(s) : i # j => s[i] # s[j] }

\* a runMany that returns the results in the order they came in
ManyResults_AsCompleted(jobs, resultMap) == [i \in 1..Len(resultMap) |-> resultMap[i].res]

\* jobs.map((job) => resultMap.get(job.id)!)
ManyResults(jobs, resultMap) ==
    [i \in 1..Len(jobs) |->
        resultMap[CHOOSE k \in 1..Len(resultMap) : resultMap[k].id = jobs[i]].res]

\* runMany(jobs) is called
RunManyStart ==
    /\ manyCall.pc = "idle"
    /\ \E jobs \in JobLists :
          manyCall' = [pc |-> IF jobs = <<>> THEN "awaiting" ELSE "calling", jobs |-> jobs,
                       next |-> 1, resultMap |-> <<>>, ret |-> <<>>]
    /\ UNCHANGED <<poolVars, graphVars, teVars, hmrVars, verVars, devVars, now, moreVars>>

\* jobs.map calls run() on the next job; run() goes as far as its first await
RunManyCall ==
    /\ manyCall.pc = "calling"
    /\ Run(manyCall.jobs[manyCall.next])
    /\ manyCall' = [manyCall EXCEPT
          !.next = @ + 1,
          !.pc = IF manyCall.next = Len(manyCall.jobs) THEN "awaiting" ELSE "calling"]
    /\ UNCHANGED <<graphVars, teVars, hmrVars, verVars, devVars, now, moreVars>>

\* a run() has resolved: resultMap.set(job.id, res)
RunManyCollect ==
    /\ manyCall.pc = "awaiting"
    /\ \E c \in ToSet(manyCall.jobs) :
          /\ poolCall[c].pc = "resolved"
          /\ \A k \in 1..Len(manyCall.resultMap) : manyCall.resultMap[k].id # c
          /\ manyCall' = [manyCall EXCEPT
                !.resultMap = Append(@, [id |-> c, res |-> JobResult(c)])]
    /\ UNCHANGED <<poolVars, graphVars, teVars, hmrVars, verVars, devVars, now, moreVars>>

\* Promise.all settles: with the first rejection, or when every job's
\* result is in resultMap
RunManyReturn ==
    /\ manyCall.pc = "awaiting"
    /\ IF \E c \in ToSet(manyCall.jobs) : poolCall[c].pc = "rejected"
       THEN manyCall' = [manyCall EXCEPT !.pc = "rejected"]
       ELSE /\ Len(manyCall.resultMap) = Len(manyCall.jobs)
            /\ manyCall' = [manyCall EXCEPT
                  !.pc = "returned",
                  !.ret = ManyResults(manyCall.jobs, manyCall.resultMap)]
    /\ UNCHANGED <<poolVars, graphVars, teVars, hmrVars, verVars, devVars, now, moreVars>>

----------------------------------------------------------------------------
(* The dev server (src/cli/commands/dev.ts, src/core/watcher.ts,            *)
(* part_007)                                                               *)

\* The project: a stylesheet and two scripts, of which /G.ts imports /F.ts
\* (and /F.ts imports /G.ts once it is rewritten as "f2")
DevFiles == {"/a.css", "/F.ts", "/G.ts"}

\* watchFile: a watched or a missing file is skipped
watchFile(f) == IF f \in watched \/ disk[f] = "none" THEN watched ELSE watched \cup {f}

\* /\.module\.css$/i.test(path)
IsModuleCssPath(f) == f \in {"/a.module.css"}

\* compileCss: what PostCSS makes of the code depends on the code, on the
\* file path (`from`, and the seed of the scoped names) and on `modules`;
\* tokens stay undefined without the modules plugin
compileCss(code, filePath, modules) ==
    [css |-> [src |-> code, from |-> filePath, scoped |-> modules],
     tokens |-> IF modules THEN [names |-> code, seed |-> filePath] ELSE "undefined"]

\* renderCssModule: the JS module that injects cssText
renderCssModule(css, filePath, tokens) ==
    [js |-> "style", cssText |-> css, styleId |-> getCacheKey(filePath), tokens |-> tokens]

\* the body the CSS branch computes on a CAS miss, and the Content-Type it
\* sends, for the query q
CssBody(file, cssSource, q) ==
    LET isModule == "module" \in q \/ IsModuleCssPath(file)
        isInline == "inline" \in q
        compiled == compileCss(cssSource, file, isModule)
    IN IF isModule \/ isInline
       THEN renderCssModule(compiled.css, file,
                            IF isModule THEN compiled.tokens ELSE "undefined")
       ELSE compiled.css

CssContentType(file, q) ==
    IF "module" \in q \/ IsModuleCssPath(file) \/ "inline" \in q
    THEN "application/javascript; charset=utf-8"
    ELSE "text/css; charset=utf-8"

\* the key compileCss uses in transformCache
CssCacheKey(file, cssSource, q) ==
    <<getCacheKey(cssSource),
      getCacheKey([modules |-> "module" \in q \/ IsModuleCssPath(file), filePath |-> file])>>

Response(status, contentType, body, cache) ==
    [status |-> status, contentType |-> contentType, body |-> body, cache |-> cache]

NoResponse == Response(0, "", "", "")

\* The CSS branch up to its suspension in compileCss: read the file, watch
\* it, record it, look for the CAS file (readOk = FALSE is readFileSync
\* throwing), and on a miss enter compileCss, which looks in transformCache.
CssRequest(p, file, q, readOk) ==
    LET cssSource == disk[file]
        contentHash == getCacheKey(cssSource)
        casFile == getCasArtifactPath(TRUE, envConfigHash, contentHash)
        cacheKey == CssCacheKey(file, cssSource, q)
        call == [pc |-> "compile", file |-> file, q |-> q, src |-> cssSource,
                 cached |-> FALSE, res |-> NoResponse]
    IN /\ cssCall[p].pc # "compile"
       /\ IF cssSource = "none"
          THEN /\ cssCall' = [cssCall EXCEPT ![p] =
                    [call EXCEPT !.pc = "done", !.res = Response(404, "", "Not found", "")]]
               /\ UNCHANGED <<watched, nodes, dirty, saveTimer, gRet, tcStore>>
          ELSE /\ watched' = watchFile(file)
               /\ RecordFile(file, contentHash, <<>>, TRUE, <<>>)
               /\ IF casFile \in DOMAIN cas /\ readOk
                  THEN /\ cssCall' = [cssCall EXCEPT ![p] =
                            [call EXCEPT !.pc = "done",
                                         !.res = Response(200, CssContentType(file, q),
                                                          cas[casFile], "HIT")]]
                       /\ tcStore' = tcStore
                  ELSE IF TcHas(cacheKey)
                  THEN /\ cssCall' = [cssCall EXCEPT ![p] = [call EXCEPT !.cached = TRUE]]
                       /\ tcStore' = TcTouch(tcStore, cacheKey, now)
                  ELSE /\ cssCall' = [cssCall EXCEPT ![p] = call]
                       /\ tcStore' = tcStore
       /\ UNCHANGED <<graphFile, envConfigHash, cas, teCall, now, disk, fsEvents, debounce,
                    resolveCache, applyCall>>

\* The CSS branch from the return of compileCss: render the body, write
\* the CAS file (writeOk = FALSE is the write throwing, which is ignored),
\* respond.  compileOk = FALSE is PostCSS throwing: the 500 answer.
CssRespond(p, compileOk, writeOk) ==
    LET c == cssCall[p]
        casFile == getCasArtifactPath(TRUE, envConfigHash, getCacheKey(c.src))
        body == CssBody(c.file, c.src, c.q)
    IN /\ c.pc = "compile"
       /\ IF ~c.cached /\ ~compileOk
          THEN /\ cssCall' = [cssCall EXCEPT ![p] =
                    [c EXCEPT !.pc = "done",
                              !.res = Response(500, "", "Failed to process CSS", "")]]
               /\ UNCHANGED <<tcStore, cas>>
          ELSE /\ tcStore' = IF c.cached THEN tcStore
                             ELSE TcSet(tcStore, CssCacheKey(c.file, c.src, c.q),
                                        compileCss(c.src, c.file,
                                                   "module" \in c.q \/ IsModuleCssPath(c.file)),
                                        now)
               /\ cas' = IF writeOk
                         THEN [f \in DOMAIN cas \cup {casFile} |->
                                 IF f = casFile THEN body ELSE cas[f]]
                         ELSE cas
               /\ cssCall' = [cssCall EXCEPT ![p] =
                    [c EXCEPT !.pc = "done",
                              !.res = Response(200, CssContentType(c.file, c.q), body, "MISS")]]
       /\ UNCHANGED <<graphVars, teCall, now, disk, watched, fsEvents, debounce, resolveCache,
                    applyCall>>

\* what a request to the apply endpoint carries: text that is no JSON;
\* no text or JSON without an `id` that is a string; or JSON with `id` a
\* string: the empty string (<<>>) or an id of the server's clock, which
\* stands at 0.  NoBody is a body the server does not read.
NoBody == [kind |-> "unread", id |-> <<>>]
ApplyBodies ==
    {[kind |-> "invalid", id |-> <<>>], [kind |-> "noStringId", id |-> <<>>]}
        \cup { [kind |-> "id", id |-> i] : i \in { u \in UpdateIds : u[1] = 0 } \cup {<<>>} }

DevInit ==
    /\ disk = [f \in DevFiles |-> IF f = "/a.css" THEN "c1" ELSE IF f = "/F.ts" THEN "f1" ELSE "g1"]
    /\ watched = {}
    /\ fsEvents = {}
    /\ debounce = {}
    /\ resolveCache = <<>>
    /\ cssCall = [p \in Callers |->
                    [pc |-> "idle", file |-> "", q |-> {}, src |-> "", cached |-> FALSE,
                     res |-> NoResponse]]
    /\ applyCall = [pc |-> "idle", id |-> UpdateId(0, 0), modules |-> <<>>, rest |-> <<>>,
                    cur |-> <<>>, updates |-> <<>>, res |-> Response(0, "", <<>>, ""),
                    method |-> "", body |-> NoBody, found |-> FALSE, threw |-> FALSE]

\* GET /a.css, /a.css?inline, /a.css?module
CssServe ==
    /\ \E p \in Callers, q \in {{}, {"inline"}, {"module"}}, readOk \in BOOLEAN :
          CssRequest(p, "/a.css", q, readOk)
    /\ UNCHANGED <<hmrVars, notDev>>

CssFinish ==
    /\ \E p \in Callers, compileOk \in BOOLEAN, writeOk \in BOOLEAN :
          CssRespond(p, compileOk, writeOk)
    /\ UNCHANGED <<hmrVars, notDev>>

\* extractImports, with the specifiers written as the paths they stand
\* for: the text "g1" of /G.ts imports /F.ts, the other texts import nothing
extractImports(code) == IF code = "g1" THEN <<"/F.ts">> ELSE <<>>

\* resolveImport on the specifiers in turn: a cached answer, a miss
\* included, is returned as it is; otherwise tryWithExt looks on disk and
\* the answer is cached.  The result is the cache and the paths found.
RECURSIVE ResolveLoop(_, _, _, _)
ResolveLoop(specs, importerAbs, cache, abs) ==
    IF specs = <<>> THEN [cache |-> cache, abs |-> abs]
    ELSE LET key == <<importerAbs, Head(specs)>>
             resolved == IF key \in DOMAIN cache THEN cache[key]
                         ELSE IF disk[Head(specs)] # "none" THEN Head(specs) ELSE "null"
         IN ResolveLoop(Tail(specs), importerAbs,
                        [k \in DOMAIN cache \cup {key} |-> IF k = key THEN resolved ELSE cache[k]],
                        IF resolved = "null" THEN abs ELSE Append(abs, resolved))

resolveImports(specs, importerAbs) ==
    LET r == ResolveLoop(specs, importerAbs, resolveCache, <<>>)
    IN [r EXCEPT !.abs = Dedupe(@)]

\* watchFile on a file and then on each of its dependencies
RECURSIVE WatchAll(_, _)
WatchAll(w, files) ==
    IF files = <<>> THEN w
    ELSE WatchAll(IF Head(files) \in w \/ disk[Head(files)] = "none" THEN w
                  ELSE w \cup {Head(files)},
                  Tail(files))

\* the context handed to transformer.run by the JS branch and by
\* buildUpdatePayload
DevCtx(file, code) ==
    [path |-> file, code |-> Source(code), ext |-> ".ts", hasHash |-> TRUE,
     moduleHash |-> getCacheKey(code)]

\* The JS branch (dev.ts:643-691) up to its suspension in transformer.run:
\* read, hash, resolve the imports, record, watch.  A missing file is
\* answered 404 before any of this.  The CAS directory is readable and
\* writable in the dev server's runs (SpecTransform has the failures).
DevServeJs ==
    /\ applyCall.pc # "build"
    /\ \E f \in {"/F.ts", "/G.ts"}, readOk \in {TRUE} :
          LET code == disk[f]
              r == resolveImports(extractImports(code), f)
          IN /\ code # "none"
             /\ resolveCache' = r.cache
             /\ RecordFile(f, getCacheKey(code), r.abs, FALSE, <<>>)
             /\ watched' = WatchAll(watched, <<f>> \o r.abs)
             /\ RunStart(1, envConfigHash, DevCtx(f, code), readOk)
    /\ UNCHANGED <<graphFile, envConfigHash, disk, fsEvents, debounce, cssCall, applyCall>>
    /\ UNCHANGED <<hmrVars, notDev>>

\* the JS branch from the return of transformer.run
DevFinishJs ==
    /\ applyCall.pc # "build"
    /\ \E writeOk \in {TRUE} : RunFinish(1, writeOk)
    /\ UNCHANGED <<graphVars, hmrVars, devVars, notDev>>

\* /F.ts is deleted, or written back: fs.watch and the fs.watchFile poll
\* of a watched file will each call back
DiskChange ==
    /\ applyCall.pc # "build"
    /\ \E f \in {"/F.ts"} :
          /\ disk' = [disk EXCEPT ![f] = IF @ # "none" THEN "none"
                                         ELSE IF f = "/F.ts" THEN "f1" ELSE "g1"]
          /\ fsEvents' = IF f \in watched
                         THEN fsEvents \cup {<<f, "watch">>, <<f, "poll">>}
                         ELSE fsEvents
    /\ UNCHANGED <<watched, debounce, resolveCache, cssCall, applyCall>>
    /\ UNCHANGED <<graphVars, teVars, hmrVars, now, notDev>>

\* the change handler's modules for one change, without the dependents
ChangeModules_FileOnly(file, status) ==
    <<PendingHMRModule(file, IF status = "deleted" THEN "null" ELSE getCacheKey(disk[file]),
                       IF status = "deleted" THEN "deleted" ELSE "changed")>>

\* The modules the change handler (dev.ts:706-740) queues: the file and
\* what collectAffected finds, each with its reason and hash ("null" is null)
ChangeModules(file, status) ==
    LET found == collectAffected(<<file>>)
        affected == IF Includes(found, file) THEN found ELSE <<file>> \o found
    IN [i \in 1..Len(affected) |->
          LET absPath == affected[i]
              reason == IF absPath = file
                        THEN (IF status = "deleted" THEN "deleted" ELSE "changed")
                        ELSE "dependent"
              known == IF HasNode(absPath) THEN getNode(absPath).hash ELSE "null"
              hash == IF reason = "deleted" THEN "null"
                      ELSE IF absPath = file /\ disk[file] # "none"
                           THEN getCacheKey(disk[file])
                           ELSE known
          IN PendingHMRModule(absPath, hash, reason)]

\* A watcher callback runs.  The fs.watch callback drops an event that
\* comes less than 100ms after the last one it let through for the file
\* (tooSoon, possible once there is such a time), and reports by
\* existsSync; the poll reports "changed".  The change handler queues the
\* update and, for a deleted file, removes and unwatches it.
WatcherEvent ==
    /\ applyCall.pc # "build"
    /\ \E e \in fsEvents, tooSoon \in BOOLEAN :
          LET file == e[1]
              dropped == e[2] = "watch" /\ file \in debounce /\ tooSoon
              status == IF e[2] = "watch" /\ disk[file] = "none" THEN "deleted" ELSE "changed"
          IN /\ debounce' = IF e[2] = "watch" /\ ~dropped THEN debounce \cup {file} ELSE debounce
             /\ IF dropped
                THEN /\ fsEvents' = fsEvents \ {e}
                     /\ UNCHANGED <<hmrVars, nodes, dirty, saveTimer, gRet, watched>>
                ELSE /\ queueUpdate(ChangeModules(file, status))
                     /\ IF status = "deleted"
                        THEN /\ RemoveFile(file)
                             /\ watched' = watched \ {file}
                             /\ fsEvents' = { x \in fsEvents : x[1] # file }
                        ELSE /\ fsEvents' = fsEvents \ {e}
                             /\ UNCHANGED <<nodes, dirty, saveTimer, gRet, watched>>
    /\ UNCHANGED <<graphFile, envConfigHash, teVars, now, disk, resolveCache, cssCall, applyCall>>
    /\ UNCHANGED notDev

\* POST /__ionify_hmr/apply with an id: consumeUpdate, then 404 or the
\* start of buildUpdatePayload
ApplyRequest(methods, bodies) ==
    /\ applyCall.pc \in {"idle", "done"}
    /\ \E method \in methods, sent \in bodies :
          LET body == IF method = "POST" THEN sent ELSE NoBody
              answered(status, text) ==
                  [pc |-> "done", id |-> UpdateId(0, 0), modules |-> <<>>, rest |-> <<>>,
                   cur |-> <<>>, updates |-> <<>>,
                   res |-> Response(status, "application/json", text, ""),
                   method |-> method, body |-> body, found |-> FALSE, threw |-> FALSE]
          IN IF method # "POST"
             THEN /\ applyCall' = [answered(405, "Method Not Allowed") EXCEPT
                                      !.res.contentType = ""]
                  /\ UNCHANGED <<hmrVars, now>>
             ELSE IF body.kind = "invalid"
             THEN /\ applyCall' = answered(400, "Invalid JSON body")
                  /\ UNCHANGED <<hmrVars, now>>
             ELSE IF body.kind # "id" \/ body.id = <<>>
             THEN /\ applyCall' = answered(400, "Missing update id")
                  /\ UNCHANGED <<hmrVars, now>>
             ELSE LET id == body.id
                  IN /\ consumeUpdate(id)
                     /\ applyCall' =
                           IF id \in DOMAIN pending
                           THEN [pc |-> "build", id |-> id, modules |-> pending[id].modules,
                                 rest |-> pending[id].modules, cur |-> <<>>, updates |-> <<>>,
                                 res |-> Response(0, "", <<>>, ""),
                                 method |-> method, body |-> body, found |-> TRUE,
                                 threw |-> FALSE]
                           ELSE [answered(404, "Update not found") EXCEPT !.id = id]
    /\ UNCHANGED <<disk, watched, fsEvents, debounce, resolveCache, cssCall>>
    /\ UNCHANGED <<graphVars, teVars, notDev>>

\* an error event that does not say which update failed
broadcastError_NoId(id) == Send("error", <<>>)

\* hmr.broadcastError({ id, message }): the sinks after the error event
broadcastError(id) == Send("error", <<id>>)

\* the catch of the apply endpoint (dev.ts:446-453): the error event to the
\* subscribers, the 500 answer
ApplyFailed ==
    /\ sink' = broadcastError(applyCall.id)
    /\ applyCall' = [applyCall EXCEPT
          !.pc = "done", !.threw = TRUE,
          !.res = Response(500, "application/json", "Failed to compile update", "")]
    /\ UNCHANGED <<clients, pending, nextId, hmrClosed, hmrRet, issued, served>>

DevApply ==
    /\ applyCall.pc \in {"idle", "done"}
    /\ ApplyRequest({"POST", "GET"}, ApplyBodies)

\* One turn of the loop of buildUpdatePayload, up to the call of
\* transformer.run.  Nothing else runs between the turns: the loop
\* suspends only in transformer.run.  After the last module: the 200 answer.
\* throws: whether readFileSync throws for a file that exists.
ApplyStep(throws) ==
    /\ applyCall.pc = "build"
    /\ IF applyCall.rest = <<>>
       THEN /\ applyCall' = [applyCall EXCEPT !.pc = "done",
                                !.res = Response(200, "application/json", applyCall.updates, "")]
            /\ UNCHANGED <<graphVars, teVars, now, watched, fsEvents, resolveCache, hmrVars>>
       ELSE LET mod == Head(applyCall.rest)
                code == disk[mod.absPath]
                r == resolveImports(extractImports(code), mod.absPath)
            IN IF mod.reason = "deleted" \/ code = "none"
               THEN /\ RemoveFile(mod.absPath)
                    /\ watched' = watched \ {mod.absPath}
                    /\ fsEvents' = { x \in fsEvents : x[1] # mod.absPath }
                    /\ applyCall' = [applyCall EXCEPT
                          !.rest = Tail(@),
                          !.updates = Append(@, [url |-> mod.url, hash |-> "null", deps |-> <<>>,
                                                 reason |-> mod.reason, status |-> "deleted"])]
                    /\ UNCHANGED <<graphFile, envConfigHash, teVars, now, resolveCache, hmrVars>>
               ELSE IF throws
               THEN /\ watched' = WatchAll(watched, <<mod.absPath>>)
                    /\ ApplyFailed
                    /\ UNCHANGED <<graphVars, teVars, now, fsEvents, resolveCache>>
               ELSE /\ resolveCache' = r.cache
                    /\ RecordFile(mod.absPath, getCacheKey(code), r.abs, FALSE, <<>>)
                    /\ watched' = WatchAll(watched, <<mod.absPath>> \o r.abs)
                    /\ \E readOk \in {TRUE} :
                          RunStart(2, envConfigHash, DevCtx(mod.absPath, code), readOk)
                    /\ applyCall' = [applyCall EXCEPT !.pc = "run",
                          !.cur = [hash |-> getCacheKey(code), deps |-> r.abs]]
                    /\ UNCHANGED <<graphFile, envConfigHash, fsEvents, hmrVars>>
    /\ UNCHANGED <<disk, debounce, cssCall>>
    /\ UNCHANGED notDev

DevApplyStep == applyCall.pc = "build" /\ ApplyStep(FALSE)

\* buildUpdatePayload from the return of transformer.run: the entry of
\* the module, then the loop goes on.  throws: whether a loader of the
\* chain throws, so that transformer.run rejects.
ApplyResume(throws) ==
    /\ applyCall.pc = "run"
    /\ LET c == teCall[2]
           mod == Head(applyCall.rest)
           code == IF c.pc = "chain"
                   THEN RunChain(Engine(c.version).loaders, c.version, c.ctx)
                   ELSE c.code
       IN IF c.pc = "chain" /\ throws
          THEN /\ teCall' = [teCall EXCEPT ![2].pc = "failed"]
               /\ ApplyFailed
               /\ UNCHANGED <<tcStore, cas, now>>
          ELSE /\ IF c.pc = "chain"
                  THEN \E writeOk \in {TRUE} : RunFinish(2, writeOk)
                  ELSE UNCHANGED <<teVars, now>>
               /\ applyCall' = [applyCall EXCEPT
                     !.pc = "build",
                     !.rest = Tail(@),
                     !.cur = <<>>,
                     !.updates = Append(@, [url |-> mod.url, hash |-> applyCall.cur.hash,
                                            deps |-> applyCall.cur.deps, reason |-> mod.reason,
                                            status |-> "updated", code |-> code])]
               /\ UNCHANGED hmrVars
    /\ UNCHANGED <<disk, watched, fsEvents, debounce, resolveCache, cssCall>>
    /\ UNCHANGED <<graphVars, notDev>>

DevApplyResume == applyCall.pc = "run" /\ ApplyResume(FALSE)

\* the same two steps where reading or transforming a module may fail
DevApplyStepOrThrow == applyCall.pc = "build" /\ \E throws \in BOOLEAN : ApplyStep(throws)

DevApplyResumeOrThrow == applyCall.pc = "run" /\ \E throws \in BOOLEAN : ApplyResume(throws)

\* the requests to the apply endpoint that carry an id
DevApplyId ==
    /\ applyCall.pc \in {"idle", "done"}
    /\ ApplyRequest({"POST"}, { b \in ApplyBodies : b.kind = "id" /\ b.id # <<>> })

\* The browser's first requests, made before any file changes: it loads a
\* module, it subscribes to the event channel
DevServeFirst == nextId = 1 /\ fsEvents = {} /\ DevServeJs

DevSubscribe == nextId = 1 /\ applyCall.pc # "build" /\ HmrSubscribe

----------------------------------------------------------------------------
(* IonifyWatcher (src/core/watcher.ts) and one path, abs.                  *)
(*                                                                         *)
(* watcher.watchers, .polled and .debounce are the object's maps at abs    *)
(* (debounce 0: no entry).  fsWatch is the number of open fs.watch handles *)
(* whose callback is for abs, statListeners the number of listeners that   *)
(* fs.watchFile holds for abs; node keeps every listener it is given and   *)
(* fs.unwatchFile(abs) without a listener removes them all.  Times are in  *)
(* milliseconds.                                                           *)

DebounceMs == 100
MaxListeners == 2
MaxClockSteps == 3
MaxEmitted == 3

ClockStep == DebounceMs \div 2

WatcherInit ==
    watcher = [watchers |-> FALSE, polled |-> FALSE, debounce |-> 0,
               fsWatch |-> 0, statListeners |-> 0,
               exists |-> TRUE, osPending |-> FALSE, statChanged |-> FALSE,
               clock |-> DebounceMs, emitted |-> <<>>, last |-> "new"]

\* watcher.ts:33, `now - last < 100`
Debounced(nowMs, last) == nowMs - last < DebounceMs

\* watchFile(abs); fs.watch(dir) returns a handle or throws
WatcherWatchFile ==
    /\ watcher.statListeners < MaxListeners
    /\ \E watchOk \in BOOLEAN :
          watcher' =
             IF watcher.watchers \/ ~watcher.exists
             THEN [watcher EXCEPT !.last = "watchFile"]
             ELSE IF watchOk
             THEN [watcher EXCEPT !.fsWatch = @ + 1, !.watchers = TRUE, !.polled = TRUE,
                                  !.statListeners = @ + 1, !.last = "watchFile"]
             ELSE [watcher EXCEPT !.polled = TRUE, !.statListeners = @ + 1,
                                  !.last = "watchFile"]
    /\ UNCHANGED notWatcher

\* unwatchFile(abs)
WatcherUnwatchFile ==
    /\ watcher' = [watcher EXCEPT
                     !.fsWatch = IF watcher.watchers THEN @ - 1 ELSE @,
                     !.statListeners = 0,
                     !.watchers = FALSE,
                     !.polled = FALSE,
                     !.osPending = IF watcher.watchers THEN FALSE ELSE @,
                     !.statChanged = FALSE,
                     !.last = "unwatchFile"]
    /\ UNCHANGED notWatcher

\* the file is written, deleted or created: the operating system has a
\* notification for each open handle, the next stat differs from the last
WatcherFileChange ==
    /\ \E exists \in BOOLEAN :
          /\ exists \/ watcher.exists
          /\ watcher' = [watcher EXCEPT !.exists = exists,
                                        !.osPending = watcher.fsWatch > 0,
                                        !.statChanged = watcher.statListeners > 0,
                                        !.last = "change"]
    /\ UNCHANGED notWatcher

\* the callback given to fs.watch, for a notification of the directory
WatcherOsEvent ==
    /\ watcher.fsWatch > 0
    /\ Len(watcher.emitted) < MaxEmitted
    /\ \E filename \in {"abs", "other", "null"} :
          /\ filename = "abs" => watcher.osPending
          /\ watcher' =
                IF filename # "abs" \/ Debounced(watcher.clock, watcher.debounce)
                THEN [watcher EXCEPT !.last = "fs.watch"]
                ELSE [watcher EXCEPT
                        !.debounce = watcher.clock,
                        !.emitted = Append(@, [at |-> watcher.clock,
                                               type |-> IF watcher.exists THEN "changed"
                                                        ELSE "deleted"]),
                        !.last = "fs.watch"]
    /\ UNCHANGED notWatcher

RECURSIVE Repeat(_, _)
Repeat(x, n) == IF n = 0 THEN <<>> ELSE <<x>> \o Repeat(x, n - 1)

\* a tick of fs.watchFile's polling: every listener is called with the two stats
WatcherPollTick ==
    /\ watcher.statListeners > 0
    /\ Len(watcher.emitted) < MaxEmitted
    /\ \E mtimeDiffers \in {watcher.statChanged} :
          watcher' =
             IF mtimeDiffers
             THEN [watcher EXCEPT
                     !.emitted = @ \o Repeat([at |-> watcher.clock, type |-> "changed"],
                                             watcher.statListeners),
                     !.statChanged = FALSE,
                     !.last = "fs.watchFile"]
             ELSE [watcher EXCEPT !.last = "fs.watchFile"]
    /\ UNCHANGED notWatcher

\* Date.now() moves on; the operating system's notifications of a change
\* do not outlast the step
WatcherClock ==
    /\ watcher.clock < DebounceMs + MaxClockSteps * ClockStep
    /\ watcher' = [watcher EXCEPT !.clock = @ + ClockStep, !.osPending = FALSE,
                                  !.last = "clock"]
    /\ UNCHANGED notWatcher

----------------------------------------------------------------------------
(* The public paths (src/core/utils/public-path.ts).                       *)
(*                                                                         *)
(* A string is the sequence of its character codes: 47 is "/", 46 is ".".  *)
(* The paths are POSIX paths (path.sep is "/"); process.cwd() is the root  *)
(* directory, as in dev.ts:124.                                            *)

MaxUrlLen == 6
MaxPathDepth == 4

Sep == <<47>>
SegR == <<114>>
SegRx == <<114, 120>>
SegIonify == <<95, 95, 105, 111, 110, 105, 102, 121, 95, 95>>
SegModules == <<109, 111, 100, 117, 108, 101, 115>>
SegQQ == <<81, 81>>

\* MODULE_PREFIX = "/__ionify__/modules/"
MODULE_PREFIX == Sep \o SegIonify \o Sep \o SegModules \o Sep

NoPath == <<0>>

\* String.prototype.startsWith
StartsWith(str, prefix) ==
    /\ Len(str) >= Len(prefix)
    /\ SubSeq(str, 1, Len(prefix)) = prefix

\* the prefix test without the separator
StartsWithRoot(str, normalizedRoot) == StartsWith(str, normalizedRoot)

\* publicPathForFile:8, decodePublicPath:29: `startsWith(normalizedRoot + path.sep)`
StartsWithRootSep(str, normalizedRoot) == StartsWith(str, normalizedRoot \o Sep)

\* the segments between the separators, the empty ones too
RECURSIVE SplitSep(_, _)
SplitSep(str, seg) ==
    IF str = <<>> THEN <<seg>>
    ELSE IF Head(str) = 47 THEN <<seg>> \o SplitSep(Tail(str), <<>>)
    ELSE SplitSep(Tail(str), Append(seg, Head(str)))

\* path.normalize on the segments of an absolute path: "" and "." are
\* dropped, ".." removes the segment before it and is dropped at the top
RECURSIVE NormalizeSegs(_, _)
NormalizeSegs(segs, out) ==
    IF segs = <<>> THEN out
    ELSE LET seg == Head(segs)
         IN IF seg = <<>> \/ seg = <<46>> THEN NormalizeSegs(Tail(segs), out)
            ELSE IF seg = <<46, 46>>
            THEN NormalizeSegs(Tail(segs),
                               IF out = <<>> THEN out ELSE SubSeq(out, 1, Len(out) - 1))
            ELSE NormalizeSegs(Tail(segs), Append(out, seg))

RECURSIVE JoinSegs(_)
JoinSegs(segs) ==
    IF segs = <<>> THEN <<>> ELSE Sep \o Head(segs) \o JoinSegs(Tail(segs))

AbsoluteOf(segs) == IF segs = <<>> THEN Sep ELSE JoinSegs(segs)

\* path.resolve(from, to) with `from` absolute
PathResolve(from, to) ==
    IF to # <<>> /\ Head(to) = 47
    THEN AbsoluteOf(NormalizeSegs(SplitSep(to, <<>>), <<>>))
    ELSE AbsoluteOf(NormalizeSegs(SplitSep(from \o Sep \o to, <<>>), <<>>))

\* path.relative(from, to) for `to` at or under `from`
PathRelative(from, to) ==
    IF to = from THEN <<>> ELSE SubSeq(to, Len(from) + 2, Len(to))

\* the base64url alphabet: A-Z, a-z, 0-9, "-", "_"
B64Char(i) ==
    IF i < 26 THEN 65 + i
    ELSE IF i < 52 THEN 97 + (i - 26)
    ELSE IF i < 62 THEN 48 + (i - 52)
    ELSE IF i = 62 THEN 45
    ELSE 95

\* node's decoder takes the characters of both alphabets ("+" and "-",
\* "/" and "_"); 64 is a character of neither
B64Index(c) ==
    IF c \in 65..90 THEN c - 65
    ELSE IF c \in 97..122 THEN c - 97 + 26
    ELSE IF c \in 48..57 THEN c - 48 + 52
    ELSE IF c \in {45, 43} THEN 62
    ELSE IF c \in {95, 47} THEN 63
    ELSE 64

\* Buffer.from(str).toString("base64url"): three bytes give four
\* characters, there is no padding
RECURSIVE Base64UrlEncode(_)
Base64UrlEncode(bytes) ==
    IF bytes = <<>> THEN <<>>
    ELSE IF Len(bytes) = 1
    THEN <<B64Char(bytes[1] \div 4), B64Char((bytes[1] % 4) * 16)>>
    ELSE IF Len(bytes) = 2
    THEN <<B64Char(bytes[1] \div 4),
           B64Char((bytes[1] % 4) * 16 + bytes[2] \div 16),
           B64Char((bytes[2] % 16) * 4)>>
    ELSE <<B64Char(bytes[1] \div 4),
           B64Char((bytes[1] % 4) * 16 + bytes[2] \div 16),
           B64Char((bytes[2] % 16) * 4 + bytes[3] \div 64),
           B64Char(bytes[3] % 64)>> \o Base64UrlEncode(SubSeq(bytes, 4, Len(bytes)))

RECURSIVE DecodeGroups(_)
DecodeGroups(ix) ==
    IF Len(ix) < 2 THEN <<>>
    ELSE IF Len(ix) = 2 THEN <<ix[1] * 4 + ix[2] \div 16>>
    ELSE IF Len(ix) = 3
    THEN <<ix[1] * 4 + ix[2] \div 16, (ix[2] % 16) * 16 + ix[3] \div 4>>
    ELSE <<ix[1] * 4 + ix[2] \div 16,
           (ix[2] % 16) * 16 + ix[3] \div 4,
           (ix[3] % 4) * 64 + ix[4]>> \o DecodeGroups(SubSeq(ix, 5, Len(ix)))

RECURSIVE B64Indices(_)
B64Indices(chars) ==
    IF chars = <<>> THEN <<>>
    ELSE IF B64Index(Head(chars)) = 64 THEN B64Indices(Tail(chars))
    ELSE <<B64Index(Head(chars))>> \o B64Indices(Tail(chars))

\* Buffer.from(encoded, "base64url").toString("utf8"): the characters
\* outside the alphabet are skipped, it never throws; a byte that is no
\* ASCII character comes out as U+FFFD (65533)
Base64UrlDecode(chars) ==
    LET bytes == DecodeGroups(B64Indices(chars))
    IN [i \in 1..Len(bytes) |-> IF bytes[i] < 128 THEN bytes[i] ELSE 65533]

publicPathForFile(rootDir, absPath) ==
    LET normalizedRoot == PathResolve(rootDir, rootDir)
        normalizedFile == PathResolve(rootDir, absPath)
    IN IF StartsWithRootSep(normalizedFile, normalizedRoot) \/ normalizedFile = normalizedRoot
       THEN Sep \o PathRelative(normalizedRoot, normalizedFile)
       ELSE MODULE_PREFIX \o Base64UrlEncode(normalizedFile)

decodePublicPath(rootDir, urlPath) ==
    IF StartsWith(urlPath, MODULE_PREFIX)
    THEN PathResolve(rootDir,
                     Base64UrlDecode(SubSeq(urlPath, Len(MODULE_PREFIX) + 1, Len(urlPath))))
    ELSE LET normalizedRoot == PathResolve(rootDir, rootDir)
             joined == PathResolve(normalizedRoot, <<46>> \o urlPath)
         IN IF ~StartsWithRootSep(joined, normalizedRoot) /\ joined # normalizedRoot
            THEN NoPath
            ELSE joined

\* the root directories, the request paths and the files of the calls
MapperRoots == {Sep \o SegR, Sep}
MapperUrls == SeqsUpTo({47, 46, 114, 120}, MaxUrlLen)
MapperFiles ==
    { AbsoluteOf(segs) : segs \in SeqsUpTo({SegR, SegRx, SegIonify, SegModules, SegQQ},
                                            MaxPathDepth) }

MapperInit ==
    mapper = [op |-> "none", rootDir |-> <<>>, input |-> <<>>, url |-> <<>>, out |-> <<>>]

\* decodePublicPath(rootDir, urlPath), as dev.ts:480 calls it
MapperDecode ==
    /\ mapper.op = "none"
    /\ \E rootDir \in MapperRoots, urlPath \in MapperUrls :
          mapper' = [op |-> "decode", rootDir |-> rootDir, input |-> urlPath, url |-> urlPath,
                     out |-> decodePublicPath(rootDir, urlPath)]
    /\ UNCHANGED notMapper

\* decodePublicPath(rootDir, publicPathForFile(rootDir, absPath))
MapperRoundTrip ==
    /\ mapper.op = "none"
    /\ \E rootDir \in MapperRoots, absPath \in MapperFiles :
          LET url == publicPathForFile(rootDir, absPath)
          IN mapper' = [op |-> "roundTrip", rootDir |-> rootDir, input |-> absPath,
                        url |-> url, out |-> decodePublicPath(rootDir, url)]
    /\ UNCHANGED notMapper

\* the caller has its answer
MapperReturn ==
    /\ mapper.op # "none"
    /\ mapper' = [op |-> "none", rootDir |-> <<>>, input |-> <<>>, url |-> <<>>, out |-> <<>>]
    /\ UNCHANGED notMapper

----------------------------------------------------------------------------
(* The resolver (src/core/resolver.ts).                                    *)
(*                                                                         *)
(* One importer, /src/a.ts, and two specifiers: "./dep" (relative) and     *)
(* "pkg" (bare).  process.cwd() is "/"; there is no tsconfig.json, so      *)
(* loadTsconfigAliases() gives no entry.  resolver.first is history: the   *)
(* first answer given for each key since the cache was last cleared.       *)

ResolverFiles == {"/src/dep.ts", "/alias/pkg.ts", "/node_modules/pkg/index.js", "/src/pkg.ts"}
ResolverSpecifiers == {"./dep", "pkg"}
ResolverImporters == {"/src/a.ts"}

\* the alias tables configureResolverAliases is given: none, or pkg -> /alias/pkg
AliasTables == {<<>>, <<[pattern |-> "pkg", target |-> "/alias/pkg"]>>}

\* p with the first of SUPPORTED_EXTS that names a file of this model
WithExt(p) ==
    IF p = "/src/dep" THEN "/src/dep.ts"
    ELSE IF p = "/alias/pkg" THEN "/alias/pkg.ts"
    ELSE IF p = "/src/pkg" THEN "/src/pkg.ts"
    ELSE p

tryWithExt(p, files) ==
    IF p \in files THEN p
    ELSE IF WithExt(p) \in files THEN WithExt(p)
    ELSE "null"

RECURSIVE resolveFromEntries(_, _, _)
resolveFromEntries(entries, specifier, files) ==
    IF entries = <<>> THEN "null"
    ELSE LET resolved == IF Head(entries).pattern = specifier
                         THEN tryWithExt(Head(entries).target, files)
                         ELSE "null"
         IN IF resolved # "null" THEN resolved
            ELSE resolveFromEntries(Tail(entries), specifier, files)

\* path.resolve(path.dirname(importerAbs), specifier)
RelativeTarget(importerAbs, specifier) ==
    IF importerAbs = "/src/a.ts" /\ specifier = "./dep" THEN "/src/dep" ELSE specifier

\* resolveImport below its cache test: aliases, require.resolve (and
\* import.meta.resolve, which finds what it finds), the fallbacks under
\* the importer's node_modules, src/ and the working directory
ResolveUncached(specifier, importerAbs, aliases, files) ==
    IF specifier \notin {"./dep"}
    THEN LET aliasResolved == resolveFromEntries(aliases, specifier, files)
         IN IF aliasResolved # "null" THEN aliasResolved
            ELSE IF "/node_modules/pkg/index.js" \in files /\ specifier = "pkg"
            THEN "/node_modules/pkg/index.js"
            ELSE IF tryWithExt("/src/node_modules/pkg", files) # "null"
            THEN tryWithExt("/src/node_modules/pkg", files)
            ELSE IF tryWithExt("/src/pkg", files) # "null"
            THEN tryWithExt("/src/pkg", files)
            ELSE tryWithExt("/pkg", files)
    ELSE tryWithExt(RelativeTarget(importerAbs, specifier), files)

\* the cache is left as it is
ClearedCache_Kept(cache) == cache

\* resolvePathCache.clear()
ClearedCache(cache) == <<>>

ResolverInit ==
    resolver = [cache |-> <<>>, aliases |-> <<>>, files |-> ResolverFiles,
                first |-> <<>>,
                last |-> [op |-> "none", key |-> <<"", "">>, value |-> "null", again |-> FALSE]]

\* resolveImport(specifier, importerAbs)
ResolverResolveImport ==
    /\ \E specifier \in ResolverSpecifiers, importerAbs \in ResolverImporters :
          LET cacheKey == <<importerAbs, specifier>>
              value == IF cacheKey \in DOMAIN resolver.cache
                       THEN resolver.cache[cacheKey]
                       ELSE ResolveUncached(specifier, importerAbs, resolver.aliases,
                                            resolver.files)
          IN resolver' =
                [resolver EXCEPT
                   !.cache = [k \in DOMAIN resolver.cache \cup {cacheKey} |->
                                 IF k = cacheKey THEN value ELSE resolver.cache[k]],
                   !.first = [k \in DOMAIN resolver.first \cup {cacheKey} |->
                                 IF k \in DOMAIN resolver.first THEN resolver.first[k]
                                 ELSE value],
                   !.last = [op |-> "resolveImport", key |-> cacheKey, value |-> value,
                             again |-> cacheKey \in DOMAIN resolver.first]]
    /\ UNCHANGED notResolver

\* configureResolverAliases(aliases, baseDir)
ResolverConfigure ==
    /\ \E aliases \in AliasTables :
          resolver' = [resolver EXCEPT !.aliases = aliases,
                                      !.last = [@ EXCEPT !.op = "configure"]]
    /\ UNCHANGED notResolver

\* resetResolverAliasCache()
ResolverReset ==
    /\ resolver' = [resolver EXCEPT !.aliases = <<>>,
                                    !.cache = ClearedCache(@),
                                    !.first = <<>>,
                                    !.last = [@ EXCEPT !.op = "reset"]]
    /\ UNCHANGED notResolver

\* a file is created or deleted
ResolverFileChange ==
    /\ \E f \in ResolverFiles :
          resolver' = [resolver EXCEPT
                         !.files = IF f \in @ THEN @ \ {f} ELSE @ \cup {f},
                         !.last = [@ EXCEPT !.op = "file"]]
    /\ UNCHANGED notResolver

----------------------------------------------------------------------------
(* Shutdown of the dev server (src/cli/commands/dev.ts:752-859).            *)
(*                                                                         *)
(* Time is in milliseconds.  The event loop is not blocked: a timer runs   *)
(* when it is due, and the callbacks that are ready (the 'close' event, the *)
(* answer of getConnections, the continuation of an await) run before the  *)
(* clock moves on.  Connections are the open event channels (the responses *)
(* HMRServer holds) and the other keep-alive sockets; a client closes its  *)
(* own when it likes, possibly never.                                      *)

HardTimeoutMs == 3000
RaceTimeoutMs == 5000
ShutClockStep == HardTimeoutMs \div 3
MaxShutTicks == 6
MaxConns == 2
MaxShutdownCalls == 2

ShutInit ==
    shut = [server |-> "listening", channels |-> 0, sockets |-> 0,
            closingPromise |-> "null", timer |-> "none", timerAt |-> 0,
            closeCbs |-> <<>>, emitDue |-> 0, cleanedUp |-> FALSE, askConns |-> FALSE,
            watcherClosed |-> 0, hmrClosed |-> 0, flushed |-> 0, openAtCleanup |-> -1,
            clock |-> 0, reqAt |-> -1, waiters |-> {}, calls |-> 0,
            exiting |-> FALSE, exited |-> FALSE]

\* a cleanup that runs every time it is called
CleanupRuns_Always(cleanedUp) == TRUE

\* the guard of cleanup(): if (cleanedUp) return
CleanupRuns(cleanedUp) == ~cleanedUp

\* cleanup(force): watcher.closeAll(), hmr.close() (which ends every event
\* channel: the connection stays, idle), graph.flush(); with force,
\* getConnections is asked and answers later
Cleanup(s, force) ==
    IF ~CleanupRuns(s.cleanedUp) THEN s
    ELSE [s EXCEPT !.cleanedUp = TRUE,
                   !.askConns = @ \/ force,
                   !.watcherClosed = @ + 1,
                   !.hmrClosed = @ + 1,
                   !.sockets = @ + s.channels,
                   !.channels = 0,
                   !.flushed = @ + 1,
                   !.openAtCleanup = s.channels]

\* net.Server.close(cb): the callback is kept for the next 'close' event,
\* with ERR_SERVER_NOT_RUNNING when the server was not listening; the server
\* stops listening; 'close' is emitted once no connection is left.
\* idleClosed: whether this http.Server also closes its idle connections.
ServerClose(s, withCb, idleClosed) ==
    LET sockets == IF idleClosed THEN 0 ELSE s.sockets
    IN [s EXCEPT !.closeCbs = IF withCb
                              THEN Append(@, IF s.server = "listening" THEN "ok" ELSE "notRunning")
                              ELSE @,
                 !.server = IF @ = "listening" THEN "closing" ELSE @,
                 !.sockets = sockets,
                 !.emitDue = IF s.channels + sockets = 0 THEN @ + 1 ELSE @]

\* the callback given to server.close (dev.ts:800): clearTimeout, then
\* reject or resolve; a settled promise stays as it is
CloseCallback(s, err) ==
    [s EXCEPT !.timer = IF @ = "armed" THEN "cleared" ELSE @,
              !.closingPromise = IF @ # "pending" THEN @
                                 ELSE IF err = "ok" THEN "resolved" ELSE "rejected"]

RECURSIVE CloseCallbacks(_, _)
CloseCallbacks(s, cbs) ==
    IF cbs = <<>> THEN s ELSE CloseCallbacks(CloseCallback(s, Head(cbs)), Tail(cbs))

ShutRunnable(w) == shut.closingPromise \in {"resolved", "rejected"} \/ shut.clock >= w.at

\* a client opens an event channel or another connection
ShutConnect ==
    /\ ~shut.exited
    /\ shut.server = "listening"
    /\ shut.channels + shut.sockets < MaxConns
    /\ \E kind \in {"channel", "socket"} :
          shut' = IF kind = "channel" THEN [shut EXCEPT !.channels = @ + 1]
                  ELSE [shut EXCEPT !.sockets = @ + 1]
    /\ UNCHANGED notShut

\* a client closes one of its connections
ShutDisconnect ==
    /\ ~shut.exited
    /\ \E kind \in {"channel", "socket"} :
          /\ IF kind = "channel" THEN shut.channels > 0 ELSE shut.sockets > 0
          /\ LET s == IF kind = "channel" THEN [shut EXCEPT !.channels = @ - 1]
                      ELSE [shut EXCEPT !.sockets = @ - 1]
             IN shut' = [s EXCEPT !.emitDue =
                            IF s.server = "closing" /\ s.channels + s.sockets = 0
                            THEN @ + 1 ELSE @]
    /\ UNCHANGED notShut

\* shutdown(exitProcess) up to its await (dev.ts:790-818)
ShutShutdown ==
    /\ ~shut.exited
    /\ shut.calls < MaxShutdownCalls
    /\ \E exitProcess \in BOOLEAN, idleClosed \in BOOLEAN :
          LET first == shut.closingPromise = "null"
              s1 == IF first
                    THEN ServerClose([shut EXCEPT !.closingPromise = "pending",
                                                  !.timer = "armed",
                                                  !.timerAt = shut.clock + HardTimeoutMs,
                                                  !.reqAt = shut.clock],
                                     TRUE, idleClosed)
                    ELSE shut
          IN shut' = [s1 EXCEPT !.calls = @ + 1,
                                !.waiters = @ \cup {[at |-> shut.clock + RaceTimeoutMs,
                                                     exit |-> exitProcess,
                                                     n |-> shut.calls + 1]}]
    /\ UNCHANGED notShut

\* the holder of the returned server closes it directly
ShutServerClose ==
    /\ ~shut.exited
    /\ shut.server = "listening" \/ shut.emitDue = 0
    /\ \E idleClosed \in BOOLEAN : shut' = ServerClose(shut, FALSE, idleClosed)
    /\ UNCHANGED notShut

\* the 'close' event: the listener of dev.ts:788, then the callbacks that
\* server.close was given
ShutCloseEvent ==
    /\ ~shut.exited
    /\ shut.emitDue > 0
    /\ shut' = CloseCallbacks(
                  [Cleanup([shut EXCEPT !.emitDue = @ - 1, !.server = "closed"], FALSE)
                      EXCEPT !.closeCbs = <<>>],
                  shut.closeCbs)
    /\ UNCHANGED notShut

\* the timer of dev.ts:794
ShutTimer ==
    /\ ~shut.exited
    /\ shut.timer = "armed"
    /\ shut.clock >= shut.timerAt
    /\ shut' = [Cleanup(shut, TRUE) EXCEPT
                  !.timer = "fired",
                  !.closingPromise = IF @ = "pending" THEN "resolved" ELSE @]
    /\ UNCHANGED notShut

\* the callback of server.getConnections (dev.ts:762)
ShutGetConnections ==
    /\ ~shut.exited
    /\ shut.askConns
    /\ shut' = IF shut.channels + shut.sockets > 0
               THEN [shut EXCEPT !.askConns = FALSE, !.channels = 0, !.sockets = 0,
                                 !.emitDue = IF shut.server = "closing" THEN @ + 1 ELSE @]
               ELSE [shut EXCEPT !.askConns = FALSE]
    /\ UNCHANGED notShut

\* shutdown() after its await (dev.ts:819-827): the race was won by
\* closingPromise or by the timer of dev.ts:816
ShutAwait ==
    /\ ~shut.exited
    /\ \E w \in shut.waiters :
          /\ ShutRunnable(w)
          /\ LET s1 == IF shut.closingPromise = "resolved" THEN shut ELSE Cleanup(shut, TRUE)
             IN shut' = [s1 EXCEPT !.waiters = @ \ {w},
                                   !.exiting = @ \/ w.exit]
    /\ UNCHANGED notShut

\* process.exit(0)
ShutExit ==
    /\ shut.exiting
    /\ ~shut.exited
    /\ shut' = [shut EXCEPT !.exited = TRUE]
    /\ UNCHANGED notShut

\* time passes
ShutTick ==
    /\ ~shut.exited
    /\ ~shut.exiting
    /\ shut.clock < MaxShutTicks * ShutClockStep
    /\ shut.timer = "armed" => shut.clock < shut.timerAt
    /\ \A w \in shut.waiters : ~ShutRunnable(w)
    /\ shut.emitDue = 0
    /\ ~shut.askConns
    /\ shut' = [shut EXCEPT !.clock = @ + ShutClockStep]
    /\ UNCHANGED notShut


----------------------------------------------------------------------------
(* resolveOptimizationLevel (src/cli/utils/optimization-level.ts,          *)
(* part_002:92-126).  A string is the sequence of its characters; a number *)
(* is an integer, a number that is no integer, or NaN.                     *)

LvUndefined == [t |-> "undefined", n |-> 0, s |-> <<>>]
LvNaN == [t |-> "NaN", n |-> 0, s |-> <<>>]
LvFraction == [t |-> "fraction", n |-> 0, s |-> <<>>]
LvNull == [t |-> "null", n |-> 0, s |-> <<>>]
LvNum(n) == [t |-> "number", n |-> n, s |-> <<>>]
LvStr(s) == [t |-> "string", n |-> 0, s |-> s]

DigitChars == <<"0", "1", "2", "3", "4", "5", "6", "7", "8", "9">>
IsDigit(c) == \E d \in 1..Len(DigitChars) : DigitChars[d] = c
DigitValue(c) == (CHOOSE d \in 1..Len(DigitChars) : DigitChars[d] = c) - 1

RECURSIVE SkipSpaces(_)
SkipSpaces(s) == IF s # <<>> /\ Head(s) = " " THEN SkipSpaces(Tail(s)) ELSE s

\* the value of the longest prefix of digits, read after acc; <<value, digits read>>
RECURSIVE ReadDigits(_, _, _)
ReadDigits(s, acc, count) ==
    IF s # <<>> /\ IsDigit(Head(s))
    THEN ReadDigits(Tail(s), acc * 10 + DigitValue(Head(s)), count + 1)
    ELSE <<acc, count>>

\* parseInt(string, 10): leading white space and one sign are skipped, the
\* digits that follow are read, whatever comes after them is ignored; NaN
\* when there is no digit
ParseInt10(s) ==
    LET t == SkipSpaces(s)
        signed == t # <<>> /\ Head(t) \in {"+", "-"}
        body == IF signed THEN Tail(t) ELSE t
        read == ReadDigits(body, 0, 0)
    IN IF read[2] = 0 THEN LvNaN
       ELSE LvNum(IF signed /\ Head(t) = "-" THEN 0 - read[1] ELSE read[1])

\* [0, 1, 2, 3].includes(value)
IsLevel(value) == value.t = "number" /\ value.n \in 0..3

\* a source that wins with any number, a level or not
FallThrough_AnyNumber(first, rest) == IF first.t = "number" THEN first ELSE rest

\* a source whose value is no level gives way to the next one
FallThrough(first, rest) == IF IsLevel(first) THEN first ELSE rest

resolveOptimizationLevel(configLevel, cliLevel, envLevel) ==
    LET cli == IF cliLevel.t = "undefined" THEN LvNaN
               ELSE IF cliLevel.t \in {"number", "fraction", "NaN"} THEN cliLevel
               ELSE IF cliLevel.t = "string" THEN ParseInt10(cliLevel.s)
               ELSE LvNaN
        env == IF envLevel.t = "string" /\ envLevel.s # <<>>
               THEN ParseInt10(envLevel.s) ELSE LvNaN
        cfg == IF configLevel.t # "undefined" THEN configLevel ELSE LvNaN
    IN FallThrough(cli, FallThrough(env, FallThrough(cfg, LvNull)))

\* the values the three sources are given
LevelStrings ==
    { <<>>, <<"0">>, <<"1">>, <<"3">>, <<"4">>, <<"x">>, <<"2", "x">>, <<" ", "2">>,
      <<"-", "1">>, <<"1", "0">>, <<"1", ".", "5">> }
LevelNumbers == { LvNum(n) : n \in -1..4 } \cup { LvFraction, LvNaN }
CliLevels == {LvUndefined} \cup LevelNumbers \cup { LvStr(s) : s \in LevelStrings }
EnvLevels == {LvUndefined} \cup { LvStr(s) : s \in LevelStrings }
ConfigLevels == {LvUndefined} \cup { LvNum(n) : n \in -1..4 }

OptLevelIdle ==
    [op |-> "none", configLevel |-> LvUndefined, cliLevel |-> LvUndefined,
     envLevel |-> LvUndefined, out |-> LvNull]

OptLevelInit == optLevel = OptLevelIdle

OptLevelResolve ==
    /\ optLevel.op = "none"
    /\ \E configLevel \in ConfigLevels, cliLevel \in CliLevels, envLevel \in EnvLevels :
          optLevel' = [op |-> "resolved", configLevel |-> configLevel, cliLevel |-> cliLevel,
                       envLevel |-> envLevel,
                       out |-> resolveOptimizationLevel(configLevel, cliLevel, envLevel)]
    /\ UNCHANGED notOptLevel

\* the caller goes on; the next call is another one
OptLevelReturn ==
    /\ optLevel.op = "resolved"
    /\ optLevel' = OptLevelIdle
    /\ UNCHANGED notOptLevel

----------------------------------------------------------------------------
(* A TransformCache on its own (part_009:36-89), with the limits that      *)
(* IONIFY_DEV_TRANSFORM_CACHE_MAX or setMaxEntries() give it.  lru.access  *)
(* and lru.last are history: when each key was last set or found by get,   *)
(* and what the last call was, with the store as Map.set left it before    *)
(* prune ran.                                                              *)

LruKeys == {"k1", "k2", "k3"}
MaxLruLimit == 2
MaxLruClock == 3

LruInit ==
    lru = [store |-> <<>>, maxEntries |-> MaxLruLimit, clock |-> 0, access |-> <<>>,
           last |-> [op |-> "new", key |-> "", full |-> <<>>]]

\* the history of accesses after `key` was accessed now
Accessed(key) ==
    [k \in DOMAIN lru.access \cup {key} |-> IF k = key THEN lru.clock ELSE lru.access[k]]

\* get(key)
LruGet ==
    /\ \E key \in LruKeys :
          LET hit == \E i \in 1..Len(lru.store) : lru.store[i].key = key
          IN lru' = [lru EXCEPT
                        !.store = IF hit THEN TcTouch(@, key, lru.clock) ELSE @,
                        !.access = IF hit THEN Accessed(key) ELSE @,
                        !.last = [op |-> "get", key |-> key, full |-> lru.store]]
    /\ UNCHANGED notLru

\* set(key, entry)
LruSet ==
    /\ \E key \in LruKeys :
          LET full == StoreSet(lru.store, [key |-> key, transformed |-> Source(key),
                                           timestamp |-> lru.clock])
          IN lru' = [lru EXCEPT
                        !.store = prune(full, lru.maxEntries),
                        !.access = Accessed(key),
                        !.last = [op |-> "set", key |-> key, full |-> full]]
    /\ UNCHANGED notLru

\* setMaxEntries(maxEntries)
LruSetMaxEntries ==
    /\ \E limit \in 0..MaxLruLimit :
          /\ limit # lru.maxEntries
          /\ lru' = [lru EXCEPT
                        !.maxEntries = limit,
                        !.store = prune(@, limit),
                        !.last = [op |-> "setMaxEntries", key |-> "", full |-> lru.store]]
    /\ UNCHANGED notLru

\* Date.now() moves on
LruTick ==
    /\ lru.clock < MaxLruClock
    /\ lru' = [lru EXCEPT !.clock = @ + 1]
    /\ UNCHANGED notLru

----------------------------------------------------------------------------
(* One CAS artifact file, <casRoot>/<versionHash>/<moduleHash>/transformed.js, *)
(* and the processes that share the .ionify/cas directory of a project (a  *)
(* dev server and a build): TransformEngine.run (part_009:139-162,         *)
(* 185-195), the CSS branch of the dev server (dev.ts:592-624).  The file   *)
(* is content-addressed: every writer writes the same bytes, here two      *)
(* chunks.  fs.writeFileSync opens the path with the flag "w", which       *)
(* creates or truncates the file, and then writes from its own offset      *)
(* until all is written; each process runs its own calls one after the     *)
(* other, and the calls of different processes interleave.                 *)

CasContent == <<"b1", "b2">>
CasProcesses == {"dev", "build"}

CasIoInit ==
    casIo = [exists |-> FALSE, bytes |-> <<>>,
             proc |-> [w \in CasProcesses |-> [pc |-> "idle", pos |-> 0]],
             seen |-> [kind |-> "none", by |-> "", bytes |-> <<>>]]

\* write(fd, chunk) at offset pos: a file that is shorter gets a hole
WriteAt(bytes, pos, chunk) ==
    [i \in 1..(IF Len(bytes) > pos THEN Len(bytes) ELSE pos + 1) |->
        IF i = pos + 1 THEN chunk
        ELSE IF i <= Len(bytes) THEN bytes[i]
        ELSE "hole"]

\* run() up to the CAS: existsSync(casFile), and on a hit readFileSync,
\* whose text is the result; on a miss the loader chain runs
CasLookup ==
    /\ \E w \in CasProcesses :
          /\ casIo.proc[w].pc \in {"idle", "done"}
          /\ casIo' = IF casIo.exists
                      THEN [casIo EXCEPT !.proc[w].pc = "done",
                                         !.seen = [kind |-> "bytes", by |-> w,
                                                   bytes |-> casIo.bytes]]
                      ELSE [casIo EXCEPT !.proc[w].pc = "miss"]
    /\ UNCHANGED notCasIo

\* mkdirSync(dir, { recursive: true }) and the open of writeFileSync; an
\* error is caught and ignored
CasOpen ==
    /\ \E w \in CasProcesses, ok \in BOOLEAN :
          /\ casIo.proc[w].pc = "miss"
          /\ casIo' = IF ok
                      THEN [casIo EXCEPT !.exists = TRUE, !.bytes = <<>>,
                                         !.proc[w] = [pc |-> "writing", pos |-> 0]]
                      ELSE [casIo EXCEPT !.proc[w].pc = "done"]
    /\ UNCHANGED notCasIo

\* one write of writeFileSync; an error (a full disk) is caught and ignored
CasWrite ==
    /\ \E w \in CasProcesses, ok \in BOOLEAN :
          LET pos == casIo.proc[w].pos
          IN /\ casIo.proc[w].pc = "writing"
             /\ pos < Len(CasContent)
             /\ casIo' = IF ok
                         THEN [casIo EXCEPT !.bytes = WriteAt(@, pos, CasContent[pos + 1]),
                                            !.proc[w].pos = pos + 1]
                         ELSE [casIo EXCEPT !.proc[w].pc = "done"]
    /\ UNCHANGED notCasIo

\* writeFileSync returns
CasWritten ==
    /\ \E w \in CasProcesses :
          /\ casIo.proc[w].pc = "writing"
          /\ casIo.proc[w].pos = Len(CasContent)
          /\ casIo' = [casIo EXCEPT !.proc[w].pc = "done"]
    /\ UNCHANGED notCasIo

----------------------------------------------------------------------------
(* The specifications, one per component.                                  *)

MoreInit ==
    /\ walk = WalkIdle
    /\ WatcherInit
    /\ MapperInit
    /\ ResolverInit
    /\ ShutInit
    /\ OptLevelInit
    /\ CasIoInit
    /\ LruInit

InitAll == GraphInit /\ TeInit /\ HmrInit /\ VerIdle /\ PoolIdle /\ DevInit /\ MoreInit

NextGraph == GraphRecord \/ GraphRemove

SpecGraph == InitAll /\ [][NextGraph]_vars

NextGraphStore == GraphRecordHash \/ GraphRemove \/ GraphSave \/ GraphFlush \/ GraphRestart

SpecGraphStore == InitAll /\ [][NextGraphStore]_vars

NextGraphWalk == GraphRecordModule \/ CollectAffectedStart \/ DeepStep \/ DeepReturn

SpecGraphWalk == InitAll /\ [][NextGraphWalk]_vars

NextTransform == TeRun \/ TeFinish \/ TeTick

NextWatcher ==
    \/ WatcherWatchFile
    \/ WatcherUnwatchFile
    \/ WatcherFileChange
    \/ WatcherOsEvent
    \/ WatcherPollTick
    \/ WatcherClock

SpecWatcher == InitAll /\ [][NextWatcher]_vars

NextMapper == MapperDecode \/ MapperRoundTrip \/ MapperReturn

SpecMapper == InitAll /\ [][NextMapper]_vars

NextResolver ==
    \/ ResolverResolveImport
    \/ ResolverConfigure
    \/ ResolverReset
    \/ ResolverFileChange

SpecResolver == InitAll /\ [][NextResolver]_vars

NextShutdown ==
    \/ ShutConnect
    \/ ShutDisconnect
    \/ ShutShutdown
    \/ ShutServerClose
    \/ ShutCloseEvent
    \/ ShutTimer
    \/ ShutGetConnections
    \/ ShutAwait
    \/ ShutExit
    \/ ShutTick

SpecShutdown == InitAll /\ [][NextShutdown]_vars

NextOptLevel == OptLevelResolve \/ OptLevelReturn

SpecOptLevel == InitAll /\ [][NextOptLevel]_vars

NextLru == LruGet \/ LruSet \/ LruSetMaxEntries \/ LruTick

SpecLru == InitAll /\ [][NextLru]_vars

NextCasIo == CasLookup \/ CasOpen \/ CasWrite \/ CasWritten

SpecCasIo == InitAll /\ [][NextCasIo]_vars

SpecTransform == InitAll /\ [][NextTransform]_vars

NextTransformCopies == TeRunCopies \/ TeFinish \/ TeTick

SpecTransformCopies == InitAll /\ [][NextTransformCopies]_vars

NextHmr ==
    \/ HmrSubscribe
    \/ HmrDisconnect
    \/ HmrStall
    \/ HmrQueue
    \/ HmrApply
    \/ HmrClose
    \/ HmrTick

SpecHmr == InitAll /\ [][NextHmr]_vars

NextCss == CssServe \/ CssFinish

SpecCss == InitAll /\ [][NextCss]_vars

NextDev ==
    \/ DevServeJs
    \/ DevFinishJs
    \/ DiskChange
    \/ WatcherEvent
    \/ DevApply
    \/ DevApplyStep
    \/ DevApplyResume

SpecDev == InitAll /\ [][NextDev]_vars

NextDevApply ==
    \/ DevServeFirst
    \/ DevFinishJs
    \/ DiskChange
    \/ WatcherEvent
    \/ DevSubscribe
    \/ DevApplyId
    \/ DevApplyStepOrThrow
    \/ DevApplyResumeOrThrow

SpecDevApply == InitAll /\ [][NextDevApply]_vars

InitVersion == GraphInit /\ TeInit /\ HmrInit /\ VerInit /\ PoolIdle /\ DevInit /\ MoreInit

NextVersion == VerCompute

SpecVersion == InitVersion /\ [][NextVersion]_vars

InitPool == GraphInit /\ TeInit /\ HmrInit /\ VerIdle /\ PoolInit /\ DevInit /\ MoreInit

NextPool ==
    \/ PoolRun
    \/ PoolWake
    \/ PoolMessage
    \/ PoolWorkerError
    \/ PoolWorkerExit
    \/ PoolCloseStart
    \/ PoolCloseFinish

SpecPool == InitPool /\ [][NextPool]_vars

\* The same pool with what the runtime guarantees: a thread that runs a job
\* posts its result unless it fails first, a timer that was set fires, the
\* "exit" event of a thread that failed or was terminated is delivered, and
\* close() returns once every thread has exited.  Nothing obliges a worker
\* to fail or a caller to call.
PoolExitEvent ==
    /\ ~ManyBusy
    /\ \E id \in 1..Len(threads) :
          threads[id].st \in {"errored", "exiting"} /\ OnExit(id, 1)
    /\ UNCHANGED notPool

PoolFairness ==
    /\ WF_vars(PoolMessage)
    /\ WF_vars(PoolWake)
    /\ WF_vars(PoolExitEvent)
    /\ WF_vars(PoolCloseFinish)

SpecPoolFair == InitPool /\ [][NextPool]_vars /\ PoolFairness

NextPoolMany ==
    \/ RunManyStart
    \/ RunManyCall
    \/ RunManyCollect
    \/ RunManyReturn
    \/ PoolWake
    \/ PoolMessage
    \/ PoolWorkerError
    \/ PoolWorkerExit
    \/ PoolCloseStart
    \/ PoolCloseFinish

SpecPoolMany == InitPool /\ [][NextPoolMany]_vars

----------------------------------------------------------------------------
(* Claims about the graph.                                                 *)

NodeIds == { nodes[i].id : i \in 1..Len(nodes) }

\* the recorded nodes with a static or a dynamic edge to x
EdgeSources(x) ==
    { n \in NodeIds : x \in ToSet(getNode(n).deps) \cup ToSet(getNode(n).dynamicDeps) }

\* S and everything that reaches S through static or dynamic edges
RECURSIVE ReverseClosure(_)
ReverseClosure(S) ==
    LET next == S \cup UNION { EdgeSources(x) : x \in S }
    IN IF next = S THEN S ELSE ReverseClosure(next)


\* breadth-first search from a whole seed set: the reference order
RECURSIVE BfsLoop(_, _)
BfsLoop(queue, result) ==
    IF queue = <<>> THEN result
    ELSE LET fresh == SelectSeq(Dedupe(getDependents(Head(queue))),
                                LAMBDA d : ~Includes(result, d))
         IN BfsLoop(Tail(queue) \o fresh, result \o fresh)

NoDuplicates(s) == \A i, j \in 1..Len(s) : i # j => s[i] # s[j]

\* C21: collect_affected returns the seeds first, in the order given, then
\* the dependents in the order a breadth-first search from the whole seed
\* set discovers them, each id once.
C21_SeedsThenBreadthFirst ==
    [][walk'.pc = "done" =>
          walk'.result = BfsLoop(Dedupe(walk'.changed), Dedupe(walk'.changed))]_walk

\* what is left to do in collectDependentsDeep: the nodes not yet in its
\* result count twice, the queued ids once
WalkVariant(w) == 2 * Cardinality(NodeIds \ ToSet(w.deep)) + Len(w.queue)

\* C22: collect_affected terminates and lists each module at most once, on
\* every graph: each turn of the loop of collectDependentsDeep brings the
\* variant down, the loop of collectAffected takes one target per turn,
\* and no id is listed twice.
C22_WalkTerminatesWithoutRepeats ==
    [][walk.pc = "deep" =>
          /\ walk.queue # <<>> => WalkVariant(walk') < WalkVariant(walk)
          /\ walk.queue = <<>> => Len(walk'.rest) < Len(walk.rest)
          /\ NoDuplicates(walk'.deep)
          /\ NoDuplicates(walk'.result)]_vars

\* a walk has ended on a graph with the cycle S1 -> Y -> X -> S1 and with X
\* importing itself
C22_Witness ==
    /\ walk.pc = "done"
    /\ HasNode("S1") /\ getNode("S1").deps = <<"Y">>
    /\ HasNode("Y") /\ HasNode("X") /\ getNode("X").deps = <<"S1", "X">>
    /\ Includes(walk.changed, "S1")
    /\ ToSet(walk.result) = {"S1", "X", "Y"} \cup ToSet(walk.changed)

\* C1: after any sequence of record and remove, dependents(x) is exactly the
\* set of recorded nodes with x among their static or dynamic deps.
C1_DependentsMatchEdges ==
    \A x \in Ids : ToSet(getDependents(x)) = EdgeSources(x)

\* C2: collect_affected(S) is exactly S together with every module that
\* reaches a seed through dependency edges.
C2_AffectedIsReverseClosure ==
    \A S \in SeqsUpTo(Ids, MaxSeeds) :
        ToSet(collectAffected(S)) = ReverseClosure(ToSet(S))

\* C11: after remove(id) of a recorded node, get(id) returns nothing and id
\* is in no remaining node's static or dynamic dependency list.
C11_RemovePrunesEveryEdge ==
    (gRet.op = "removeFile" /\ gRet.changed) =>
        /\ ~HasNode(gRet.id)
        /\ \A n \in NodeIds :
              gRet.id \notin ToSet(getNode(n).deps) \cup ToSet(getNode(n).dynamicDeps)

\* C12: record returns changed = true exactly when the node is new, or its
\* previous hash differs from the new hash, or its previous dependency list
\* differs from the new one.
C12_ChangedIffNewHashOrDeps ==
    [][gRet'.op = "recordFile" =>
          LET id == gRet'.id
              after == nodes'[CHOOSE i \in 1..Len(nodes') : nodes'[i].id = id]
          IN gRet'.changed <=>
                \/ ~HasNode(id)
                \/ getNode(id).hash # after.hash
                \/ ToSet(getNode(id).deps) # ToSet(after.deps)]_vars

\* C13: a node whose config hash is non-null and differs from the version
\* hash of the running process is treated as missing: get does not return
\* it and it is nobody's dependent.
C13_StaleNodesAreMissing ==
    LET Stale(n) == n.configHash # "" /\ n.configHash # envConfigHash
    IN /\ \A id \in Ids : HasNode(id) => ~Stale(getNode(id))
       /\ \A x \in Ids : \A d \in ToSet(getDependents(x)) : ~Stale(getNode(d))
       /\ \A x \in Ids : \A d \in ToSet(collectAffected(<<x>>)) :
             HasNode(d) => ~Stale(getNode(d))

\* C23: when flush() has returned and nothing was recorded or removed
\* since, the persisted snapshot holds exactly the nodes in memory and no
\* write is left buffered (the graph is not dirty, no save timer is armed).
C23_FlushPersistsEverything ==
    gRet.op = "flush" =>
        /\ loadFromDisk = nodes
        /\ ~dirty
        /\ ~saveTimer

----------------------------------------------------------------------------
(* Claims about the transform engine.                                      *)

\* C3: when run calls with the same memo key overlap and nothing is cached
\* yet, the loader chain executes once: no two callers of one engine are
\* inside the loader chain for the same memo key at the same time.
C3_SingleFlight ==
    \A p, q \in Callers :
        (/\ p # q
         /\ teCall[p].pc = "chain" /\ teCall[q].pc = "chain"
         /\ teCall[p].version = teCall[q].version
         /\ MemKey(Engine(teCall[p].version), teCall[p].ctx)
              = MemKey(Engine(teCall[q].version), teCall[q].ctx))
        => FALSE

\* C5: an engine running under version hash v never returns code that an
\* engine running under another version hash produced.
C5_NoCrossVersionCode ==
    \A p \in Callers :
        teCall[p].pc = "done" =>
            \A i \in 1..Len(teCall[p].code.stages) :
                teCall[p].code.stages[i].by = teCall[p].version

\* C17: two runs of one engine with equal (module hash, loader signature)
\* return the same code, whatever path or extension their contexts carry.
C17_SameKeySameCode ==
    \A p, q \in Callers :
        (/\ teCall[p].pc = "done" /\ teCall[q].pc = "done"
         /\ teCall[p].version = teCall[q].version
         /\ MemKey(Engine(teCall[p].version), teCall[p].ctx)
              = MemKey(Engine(teCall[q].version), teCall[q].ctx))
        => teCall[p].code = teCall[q].code

\* C18: when a run ends after the loader chain, the memory cache holds the
\* result under the memo key and the run returns it, whether or not the CAS
\* file could be written.
C18_MissPopulatesMemoryCache ==
    [][\A p \in Callers :
          (teCall[p].pc = "chain" /\ teCall'[p].pc = "done") =>
              LET c == teCall'[p]
                  key == MemKey(Engine(c.version), c.ctx)
              IN /\ c.code = RunChain(Engine(c.version).loaders, c.version, c.ctx)
                 /\ \E i \in 1..Len(tcStore') :
                       /\ tcStore'[i].key = key
                       /\ tcStore'[i].transformed = c.code]_vars

\* a run has returned the chain's result although its CAS file was not
\* written, and the memory cache holds the result
C18_Witness ==
    \E p \in Callers :
        /\ teCall[p].pc = "done"
        /\ teCall[p].via = "chain"
        /\ ~HasCasFile(Engine(teCall[p].version), teCall[p].ctx)
        /\ TcHas(MemKey(Engine(teCall[p].version), teCall[p].ctx))

\* the names of the loaders whose test accepts the context, in execution order
RECURSIVE MatchingNames(_, _)
MatchingNames(loaders, ctx) ==
    IF loaders = <<>> THEN <<>>
    ELSE (IF LoaderTest(Head(loaders), ctx) THEN <<Head(loaders).name>> ELSE <<>>)
            \o MatchingNames(Tail(loaders), ctx)

\* C36: the loader signature in the memo key of a run is made of the names
\* of the loaders whose test accepts the module, in execution order, and
\* of no other loader's name
C36_SignatureOfMatchingLoaders ==
    \A p \in Callers :
        teCall[p].pc # "idle" =>
            LET engine == Engine(teCall[p].version)
            IN MemKey(engine, teCall[p].ctx)[2]
                  = getCacheKey(MatchingNames(engine.loaders, teCall[p].ctx))

----------------------------------------------------------------------------
(* Claims about the HMR coordinator.                                       *)

\* C4: for every update id at most one consume returns the stored entry;
\* every other consume of it, before the id was queued or after the first
\* successful consume, yields not-found.
C4_ConsumeExactlyOnce ==
    /\ hmrRet.found => (hmrRet.id \in issued /\ ~hmrRet.again)
    /\ served \subseteq issued
    /\ \A id \in served : id \notin DOMAIN pending

\* a second apply of an id already served was answered not-found
C4_Witness ==
    /\ hmrRet.op = "consume"
    /\ hmrRet.again
    /\ ~hmrRet.found

\* C14: once close() has run, no sink is open or registered and the pending
\* map is empty, whatever subscribe, queue_update or consume calls follow.
C14_ClosedServerStaysEmpty ==
    hmrClosed =>
        /\ DOMAIN pending = {}
        /\ clients = {}
        /\ \A r \in Sinks : sink[r].state # "open"

\* C35: as long as close() has not run, this.pending holds exactly the ids
\* queueUpdate has returned and consumeUpdate has not yet handed out, and an
\* entry that stays is the entry that was stored: nothing drops, replaces or
\* expires it
C35_PendingIsIssuedMinusConsumed ==
    [][~hmrClosed' =>
          /\ DOMAIN pending' = issued' \ served'
          /\ \A id \in DOMAIN pending \cap DOMAIN pending' : pending'[id] = pending[id]
          /\ \A id \in DOMAIN pending' : pending'[id].summary.id = id]_vars

\* two updates were queued, one of them was consumed, time has passed, and
\* the other is still pending
C35_Witness ==
    /\ ~hmrClosed
    /\ Cardinality(issued) = 2
    /\ Cardinality(served) = 1
    /\ Cardinality(DOMAIN pending) = 1
    /\ \A id \in DOMAIN pending : pending[id].createdAt < now

\* C40: a sink on which a write has failed or stalled is taken out of
\* this.clients, so that no later send writes to it again
C40_FailedSinkIsDropped ==
    \A r \in Sinks : ~sink[r].retried

\* the update events written to a sink, in the order they were written
UpdatesOf(r) == SelectSeq(sink[r].log, LAMBDA e : e.event = "update")

\* C16: the update events of each subscriber are in the order in which
\* queue_update was called: their ids were all issued, and the counter
\* nextId that numbers the calls grows along the sink's log.
C16_UpdatesInQueueOrder ==
    \A r \in Sinks :
        LET u == UpdatesOf(r)
        IN \A i \in 1..Len(u) :
              /\ u[i].data[1] \in issued
              /\ i < Len(u) => u[i].data[1][2] < u[i + 1].data[1][2]

\* a subscriber has been sent two updates
C16_Witness == \E r \in Sinks : Len(UpdatesOf(r)) >= 2

----------------------------------------------------------------------------
(* Claims about the version hash.                                          *)

\* what a value says once the order of object keys and the order and
\* multiplicity of list elements are put aside
RECURSIVE Content(_)
Content(j) ==
    [t |-> j.t, v |-> j.v,
     items |-> { [k |-> j.items[i].k, val |-> Content(j.items[i].val)] : i \in 1..Len(j.items) }]

\* the build-affecting inputs of a configuration: its canonical inputs
BuildAffecting(config) == Content(computeCanonicalVersionInputs(config))

\* C6: two configurations that differ in any build-affecting input (parser
\* mode, minifier, treeshake mode or lists, a scope-hoist flag, plugin
\* names, entries, CSS or asset options) get different version hashes.
C6_DifferentInputsDifferentHash ==
    (/\ verOut.a.done /\ verOut.b.done
     /\ BuildAffecting(verIn.a) # BuildAffecting(verIn.b))
    => verOut.a.hash # verOut.b.hash

\* how often x is in the list
RECURSIVE CountOf(_, _)
CountOf(s, x) ==
    IF s = <<>> THEN 0 ELSE (IF Head(s) = x THEN 1 ELSE 0) + CountOf(Tail(s), x)

\* the same elements, each as often, in any order
SameElements(s, t) == \A x \in ToSet(s) \cup ToSet(t) : CountOf(s, x) = CountOf(t, x)

NotGiven(kind) == kind \in {"undefined", "null"}

\* two configurations that differ at most in the order of the keys of a
\* mapping, in the order of the elements of plugins, entry and the
\* treeshake include and exclude lists, and in a field being null or absent
DifferOnlyInOrderOrNull(a, b) ==
    /\ a.parserMode = b.parserMode \/ (Falsy(a.parserMode) /\ Falsy(b.parserMode))
    /\ a.minifier = b.minifier \/ (Falsy(a.minifier) /\ Falsy(b.minifier))
    /\ \/ NotGiven(a.treeshake.kind) /\ NotGiven(b.treeshake.kind)
       \/ /\ a.treeshake.kind = b.treeshake.kind
          /\ a.treeshake.mode = b.treeshake.mode
          /\ SameElements(a.treeshake.include, b.treeshake.include)
          /\ SameElements(a.treeshake.exclude, b.treeshake.exclude)
    /\ \/ NotGiven(a.scopeHoist.kind) /\ NotGiven(b.scopeHoist.kind)
       \/ a.scopeHoist = b.scopeHoist
    /\ \A f \in {"plugins", "entry"} :
          \/ NotGiven(a[f].kind) /\ NotGiven(b[f].kind)
          \/ a[f].kind = b[f].kind /\ SameElements(a[f].items, b[f].items)
    /\ \A f \in {"cssOptions", "assetOptions"} :
          \/ (~a[f].defined \/ a[f].isNull) /\ (~b[f].defined \/ b[f].isNull)
          \/ /\ a[f].defined /\ b[f].defined /\ ~a[f].isNull /\ ~b[f].isNull
             /\ SameElements(a[f].props, b[f].props)

\* C28: two configurations that differ only in the key order of a
\* mapping, in the element order of a set-like list (plugins, entry,
\* treeshake include and exclude) or in a field being null instead of
\* absent get the same version hash.
C28_OrderAndNullKeepTheHash ==
    (/\ verOut.a.done /\ verOut.b.done
     /\ DifferOnlyInOrderOrNull(verIn.a, verIn.b))
    => verOut.a.hash = verOut.b.hash

\* plugins ["a", "b"] and plugins ["b", "a"] were hashed alike
C28_Witness ==
    /\ verOut.a.done /\ verOut.b.done
    /\ verIn.a.plugins = ListValue("array", <<"a", "b">>)
    /\ verIn.b.plugins = ListValue("array", <<"b", "a">>)
    /\ verOut.a.hash = verOut.b.hash

----------------------------------------------------------------------------
(* Claims about the worker pool.                                           *)

\* the index of x in the sequence s, 0 if x is not in s
IndexOf(s, x) == IF Includes(s, x) THEN CHOOSE i \in 1..Len(s) : s[i] = x ELSE 0

\* how many entries of the log s satisfy Test
CountIn(s, Test(_)) == Cardinality({ i \in 1..Len(s) : Test(s[i]) })

LiveWorkers == { i \in 1..Len(threads) : threads[i].st = "up" }

\* C7: once close() has returned, every worker is terminated, the queue and
\* the in-flight set are empty and stay empty, no waiter is left suspended,
\* and every submit resumed from its backpressure wait by close has either
\* not run yet or has failed with PoolClosed.
C7_ClosedPoolStaysEmpty ==
    closePc = "returned" =>
        /\ \A i \in 1..Len(threads) : threads[i].st = "dead"
        /\ poolQueue = <<>>
        /\ DOMAIN poolActive = {}
        /\ poolWaiters = <<>>
        /\ \A c \in poolHist.byClose :
              \/ poolCall[c].pc = "sleeping"
              \/ poolCall[c] = [pc |-> "rejected", err |-> "PoolClosed"]

\* C8: a job is put back on the queue at most once, and a job whose worker
\* has failed twice has been answered with TransformError.
C8_RetriedExactlyOnce ==
    \A j \in Jobs :
        LET OfJob(e) == e.job = j
        IN /\ CountIn(poolHist.requeues, OfJob) <= 1
           /\ CountIn(poolHist.failures, OfJob) >= 2 =>
                 poolCall[j] = [pc |-> "rejected", err |-> "TransformError"]

\* C9: the handlers of one failed worker put its in-flight job back at most
\* once and spawn at most one replacement, and the number of live workers
\* never exceeds the configured pool size.
C9_OneReplacementPerFailure ==
    /\ \A i \in 1..Len(threads) :
          LET ByWorker(e) == e.worker = i
              IsWorker(w) == w = i
          IN /\ CountIn(poolHist.requeues, ByWorker) <= 1
             /\ CountIn(poolHist.spawns, IsWorker) <= 1
    /\ Cardinality(LiveWorkers) <= poolOpts.size

\* C10: no job of a caller that began to wait later is enqueued or
\* dispatched before the job of a caller that began to wait earlier.
C10_WaitersAdmittedFifo ==
    \A i, k \in 1..Len(poolHist.suspLog) :
        (i < k /\ Includes(poolHist.admitLog, poolHist.suspLog[k])) =>
            /\ Includes(poolHist.admitLog, poolHist.suspLog[i])
            /\ IndexOf(poolHist.admitLog, poolHist.suspLog[i])
                 < IndexOf(poolHist.admitLog, poolHist.suspLog[k])

----------------------------------------------------------------------------
(* Claims about the dev server.                                            *)

\* the entry of a module list for the file f, as a set (empty when absent)
EntriesFor(list, f) == { list[i] : i \in { j \in 1..Len(list) : list[j].url = f } }

\* C15: when the watcher reports /F.ts as deleted while the graph holds
\* /G.ts with /F.ts among its dependencies, the update that is queued lists
\* /F.ts with reason deleted and /G.ts with reason dependent; and a 200
\* answer of the apply endpoint for an update that lists /F.ts as deleted
\* has an entry for /F.ts with status deleted and no code.
C15_DeletedIsListedAndApplied ==
    [][/\ (/\ <<"/F.ts", "watch">> \in fsEvents /\ <<"/F.ts", "watch">> \notin fsEvents'
           /\ disk["/F.ts"] = "none"
           /\ nextId' = nextId + 1
           /\ HasNode("/G.ts") /\ Includes(getNode("/G.ts").deps, "/F.ts"))
          => LET listed == pending'[UpdateId(now, nextId)].summary.modules
             IN /\ \E m \in EntriesFor(listed, "/F.ts") : m.reason = "deleted"
                /\ \E m \in EntriesFor(listed, "/G.ts") : m.reason = "dependent"
       /\ (/\ applyCall'.pc = "done" /\ applyCall'.res.status = 200
           /\ applyCall.pc = "build"
           /\ \E m \in EntriesFor(applyCall.modules, "/F.ts") : m.reason = "deleted")
          => \E m \in EntriesFor(applyCall'.res.body, "/F.ts") :
                m.status = "deleted" /\ "code" \notin DOMAIN m]_vars

\* an update for the deleted /F.ts and its dependent /G.ts was queued, and
\* the apply endpoint has answered it with both entries
C15_Witness ==
    /\ applyCall.pc = "done" /\ applyCall.res.status = 200
    /\ Len(applyCall.res.body) = 2
    /\ applyCall.res.body[1].url = "/F.ts" /\ applyCall.res.body[1].status = "deleted"
    /\ applyCall.res.body[2].url = "/G.ts" /\ applyCall.res.body[2].reason = "dependent"
    /\ applyCall.res.body[2].status = "updated"

\* C19: whatever requests for the CSS file came before, a 200 response
\* carries the body and the Content-Type of the variant its own query
\* selects: the CSS text for the plain URL, the JS module for ?inline and
\* ?module.
C19_ResponseIsOwnVariant ==
    \A p \in Callers :
        (cssCall[p].pc = "done" /\ cssCall[p].res.status = 200) =>
            /\ cssCall[p].res.body = CssBody(cssCall[p].file, cssCall[p].src, cssCall[p].q)
            /\ cssCall[p].res.contentType = CssContentType(cssCall[p].file, cssCall[p].q)

\* C20: when runMany returns, its list is as long as the list of jobs and
\* its i-th element is the result of the i-th job, in whatever order the
\* workers finished.
C20_ResultsInInputOrder ==
    manyCall.pc = "returned" =>
        /\ Len(manyCall.ret) = Len(manyCall.jobs)
        /\ \A i \in 1..Len(manyCall.jobs) : manyCall.ret[i] = JobResult(manyCall.jobs[i])

\* runMany has returned for jobs whose results came in in another order
C20_Witness ==
    /\ manyCall.pc = "returned"
    /\ Len(manyCall.jobs) >= 2
    /\ \E i \in 1..Len(manyCall.jobs) : manyCall.resultMap[i].id # manyCall.jobs[i]

\* C30: a request to the apply endpoint is answered 405 when its method
\* is not POST, 400 when its body is no JSON or has no `id` that is a
\* string, 404 when the string `id` is not pending, and 200 (with the
\* update payload) only when the `id` was pending.
C30_ApplyStatusCodes ==
    applyCall.pc = "done" =>
        /\ applyCall.method # "POST" => applyCall.res.status = 405
        /\ (applyCall.method = "POST" /\ applyCall.body.kind # "id")
              => applyCall.res.status = 400
        /\ (applyCall.method = "POST" /\ applyCall.body.kind = "id" /\ ~applyCall.found)
              => applyCall.res.status = 404
        /\ applyCall.res.status = 200
              => (applyCall.method = "POST" /\ applyCall.body.kind = "id" /\ applyCall.found)

\* C34: when reading or transforming a module fails while the apply
\* endpoint builds the payload of update id, every subscriber is sent an
\* error event that carries id, the request is answered 500, and id is not
\* pending afterwards
C34_FailedApplyIsBroadcast ==
    [][(~applyCall.threw /\ applyCall'.threw) =>
          /\ applyCall'.pc = "done"
          /\ applyCall'.res.status = 500
          /\ applyCall'.id = applyCall.id
          /\ applyCall'.id \notin DOMAIN pending'
          /\ clients' = clients
          /\ \A r \in clients :
                sink'[r].log = Append(sink[r].log,
                                      [event |-> "error", data |-> <<applyCall.id>>])]_vars

\* the transform of a module of an update has failed and the subscriber
\* there is, who was sent the update before, has been sent the error
C34_Witness ==
    /\ applyCall.pc = "done"
    /\ applyCall.threw
    /\ teCall[2].pc = "failed"
    /\ \E r \in clients :
          /\ Len(sink[r].log) >= 3
          /\ sink[r].log[Len(sink[r].log) - 1].event = "update"
          /\ sink[r].log[Len(sink[r].log)] = [event |-> "error", data |-> <<applyCall.id>>]

----------------------------------------------------------------------------
(* Claims about the watcher.                                               *)

\* C24: for one watched path with one registration, every change event
\* emitted to the listeners comes at least the debounce window (100 ms)
\* after each event emitted before it: the notifications inside one
\* window, from fs.watch and from the polling alike, give one event.
C24_OneEventPerWindow ==
    [][(/\ watcher.statListeners <= 1
        /\ Len(watcher'.emitted) > Len(watcher.emitted))
       => \A i \in 1..Len(watcher.emitted) :
             watcher'.emitted[Len(watcher'.emitted)].at - watcher.emitted[i].at
                >= DebounceMs]_watcher

\* C25: however often watchFile(abs) was called there is at most one
\* fs.watch handle and at most one fs.watchFile listener for abs, and
\* after unwatchFile(abs) there is none.
C25_OneObserverPerPath ==
    /\ watcher.fsWatch <= 1
    /\ watcher.statListeners <= 1
    /\ watcher.last = "unwatchFile" => watcher.fsWatch = 0 /\ watcher.statListeners = 0

----------------------------------------------------------------------------
(* Claims about the public paths.                                          *)

\* the segments of a normalized absolute path
SegmentsOf(str) == NormalizeSegs(SplitSep(str, <<>>), <<>>)

\* `file` is `dir` or lies under it: both are normalized absolute paths
\* and the segments of `dir` are the first segments of `file`
AtOrUnder(file, dir) ==
    /\ file = AbsoluteOf(SegmentsOf(file))
    /\ Len(SegmentsOf(file)) >= Len(SegmentsOf(dir))
    /\ SubSeq(SegmentsOf(file), 1, Len(SegmentsOf(dir))) = SegmentsOf(dir)

\* C26: for a request path without the module prefix decodePublicPath
\* returns null or a path that is the root directory or lies under it.
C26_DecodeStaysInRoot ==
    (mapper.op = "decode" /\ ~StartsWith(mapper.input, MODULE_PREFIX))
       => \/ mapper.out = NoPath
          \/ AtOrUnder(mapper.out, mapper.rootDir)

\* a request that climbs out of the root into a sibling whose name starts
\* like the root's ("/../rx" under "/r") was refused, one inside was not
C26_Witness ==
    /\ mapper.op = "decode"
    /\ mapper.rootDir = Sep \o SegR
    /\ mapper.input = <<47, 46, 46, 47, 114, 120>>
    /\ mapper.out = NoPath

\* C27: decodePublicPath(root, publicPathForFile(root, p)) is p, for p
\* the root, a path under it or a path outside it.
C27_RoundTrip ==
    mapper.op = "roundTrip" => mapper.out = mapper.input

----------------------------------------------------------------------------
(* Claims about the resolver.                                              *)

\* C29: a call of resolveImport for a pair that was answered since the
\* cache was last reset returns that first answer again, whatever became
\* of the files and of the alias table; the first call for a pair after a
\* reset (or ever) returns what the resolution gives now.
C29_AnswersAreKeptUntilReset ==
    resolver.last.op = "resolveImport" =>
        IF resolver.last.again
        THEN resolver.last.value = resolver.first[resolver.last.key]
        ELSE resolver.last.value =
                ResolveUncached(resolver.last.key[2], resolver.last.key[1],
                                resolver.aliases, resolver.files)

\* "pkg" was answered again from the cache although the resolution would
\* now give another path, and a miss ("./dep" as null) was answered again
\* although the file is there now
C29_Witness ==
    /\ resolver.last.op = "resolveImport"
    /\ resolver.last.again
    /\ resolver.last.key[2] = "pkg"
    /\ resolver.last.value # ResolveUncached("pkg", resolver.last.key[1],
                                             resolver.aliases, resolver.files)
    /\ <<"/src/a.ts", "./dep">> \in DOMAIN resolver.cache
    /\ resolver.cache[<<"/src/a.ts", "./dep">>] = "null"
    /\ "/src/dep.ts" \in resolver.files

\* the bytes of the items of a sequence
RECURSIVE SumSizes(_)
SumSizes(items) == IF items = <<>> THEN 0 ELSE Head(items).size + SumSizes(Tail(items))

\* the bytes of the jobs in this.queue and in this.active
BytesHeld ==
    SumSizes(poolQueue) + SumSizes([k \in 1..Cardinality(DOMAIN poolActive) |->
        poolActive[CHOOSE id \in DOMAIN poolActive :
                      Cardinality({ x \in DOMAIN poolActive : x < id }) = k - 1]])

\* C39: with maxQueueBytes configured, the jobs that are queued or in
\* flight never hold more than maxQueueBytes bytes together
C39_HeldBytesWithinLimit ==
    poolOpts.maxQueueBytes # 0 => BytesHeld <= poolOpts.maxQueueBytes

\* with a limit of 2 bytes, two jobs were admitted and fill it, the third
\* call waits, and a worker has failed with its job, which is in the queue
C39_Witness ==
    /\ poolOpts.maxQueueBytes = 2
    /\ BytesHeld = 2
    /\ pendingBytes = 2
    /\ poolCall["j3"].pc = "waiting"
    /\ poolHist.failures # <<>>
    /\ poolQueue # <<>>
    /\ ~poolClosed

\* a run(job) that was called and has neither returned nor thrown
RunPending(c) == poolCall[c].pc \in {"waiting", "sleeping", "submitted"}

\* C33: on a pool that is not closed every run(job) that was called
\* returns its result in the end: also after the worker that ran the job
\* failed, and after the call waited under backpressure
C33_EveryRunReturns ==
    \A c \in Jobs : RunPending(c) ~> (poolCall[c].pc = "resolved" \/ poolClosed)

----------------------------------------------------------------------------
(* Claims about the shutdown of the dev server.                            *)

\* C31: the watcher is closed, the HMR coordinator is closed and the graph
\* is flushed at most once each, however often shutdown() and server.close()
\* are called, and once more than 3 s have passed since shutdown was first
\* requested each of the three has happened, open connections or not
C31_CleanupOnceWithinHardTimeout ==
    /\ shut.watcherClosed <= 1
    /\ shut.hmrClosed <= 1
    /\ shut.flushed <= 1
    /\ (shut.reqAt >= 0 /\ shut.clock > shut.reqAt + HardTimeoutMs) =>
          /\ shut.watcherClosed = 1
          /\ shut.hmrClosed = 1
          /\ shut.flushed = 1

\* shutdown was asked for twice, an event channel was still open when the
\* 3 s timer ran the cleanup, and 'close' was emitted afterwards
C31_Witness ==
    /\ shut.calls = MaxShutdownCalls
    /\ shut.timer = "fired"
    /\ shut.openAtCleanup > 0
    /\ shut.server = "closed"
    /\ shut.clock > shut.reqAt + HardTimeoutMs
    /\ shut.watcherClosed = 1
    /\ shut.hmrClosed = 1
    /\ shut.flushed = 1

----------------------------------------------------------------------------
(* Claims about resolveOptimizationLevel.                                  *)

\* the level a source's value is, if it is one: a number 0 to 3, or a string
\* that reads as one (as parseInt reads it: "3", and " 2" or "2x" as well)
LevelOf(value) ==
    IF value.t = "string" /\ IsLevel(ParseInt10(value.s)) THEN ParseInt10(value.s)
    ELSE IF IsLevel(value) THEN value
    ELSE LvNull

----------------------------------------------------------------------------
(* Claims about the in-memory transform cache.                             *)

KeysOf(store) == { store[i].key : i \in 1..Len(store) }

\* C38: after every set() the cache holds at most maxEntries entries; the
\* entries taken out are as many as there were over the limit, and each of
\* them was last set or found by get() no later than any entry that stays
C38_OldestAreEvicted ==
    lru.last.op = "set" =>
        LET full == KeysOf(lru.last.full)
            kept == KeysOf(lru.store)
            removed == full \ kept
            over == Len(lru.last.full) - lru.maxEntries
        IN /\ Len(lru.store) <= lru.maxEntries
           /\ kept \subseteq full
           /\ Cardinality(kept) = Len(lru.store)
           /\ Cardinality(removed) = IF over > 0 THEN over ELSE 0
           /\ \A r \in removed, k \in kept : lru.access[r] <= lru.access[k]

\* with a limit of 2, the entry set first was found by get() after the
\* second was set, and a third set() has taken out the second
C38_Witness ==
    /\ lru.last.op = "set"
    /\ lru.maxEntries = 2
    /\ Len(lru.last.full) = 3
    /\ \E r \in KeysOf(lru.last.full) \ KeysOf(lru.store) :
          \E k \in KeysOf(lru.store) :
             /\ lru.last.full[1].key = k
             /\ lru.last.full[2].key = r
             /\ lru.access[r] < lru.access[k]

----------------------------------------------------------------------------
(* Claims about the CAS files.                                             *)

\* C37: a reader of a CAS artifact finds no file or the complete bytes,
\* never a file that is written in part
C37_ReaderSeesWholeFile ==
    casIo.seen.kind = "bytes" => casIo.seen.bytes = CasContent

====
